---- MODULE Spec2Model ----
(***************************************************************************)
(* The security agent of FastApi/app/core/Agents/security_agent.py:        *)
(* run_static_analysis (the Pattern Matcher), verify_ai_finding (the       *)
(* Corroboration Filter), the merge loop, canonicalize_issue and the       *)
(* scorer of analyze_code_security.                                        *)
(*                                                                         *)
(* Texts are TLA+ strings; TLC evaluates Len, SubSeq, Head, Tail and \o on *)
(* them, so substring tests, lowercasing and the regular expressions of   *)
(* the source are computed character by character.                        *)
(***************************************************************************)
EXTENDS Integers, Sequences, FiniteSets, TLC

(***************************************************************************)
(* Bounds of the model.                                                    *)
(***************************************************************************)
\* most lines of the analysed code text
MaxLines == 2
\* most findings in the "vulnerabilities" list of an LLM reply
MaxExt == 2
\* most copies of one line in a code text: more than the largest cap on the
\* reported line numbers
ManyLines == 6
\* the readings of time.time() are 1..MaxTime
MaxTime == 2
\* most findings in an LLM reply about a long code text, and in the replies
\* to two calls in flight
MaxExtFew == 1

(***************************************************************************)
(* Python str operations.                                                  *)
(***************************************************************************)
Lowers == "abcdefghijklmnopqrstuvwxyz"
Uppers == "ABCDEFGHIJKLMNOPQRSTUVWXYZ"
Digits == "0123456789"

Ch(s, i) == SubSeq(s, i, i)

IndexIn(c, s) ==
    IF \E i \in 1..Len(s) : Ch(s, i) = c
    THEN CHOOSE i \in 1..Len(s) : Ch(s, i) = c
    ELSE 0

\* the characters of s, as a set
CharsOf(s) == { Ch(s, i) : i \in 1..Len(s) }

\* the lowercase letter of every uppercase letter
LowerOf == [c \in CharsOf(Uppers) |-> Ch(Lowers, IndexIn(c, Uppers))]

\* str.lower() of one character (ASCII)
LowerCh(c) == IF c \in DOMAIN LowerOf THEN LowerOf[c] ELSE c

RECURSIVE Lower(_)
\* str.lower(), computed by halves
Lower(s) ==
    IF Len(s) <= 1 THEN LowerCh(s)
    ELSE LET h == Len(s) \div 2
         IN  Lower(SubSeq(s, 1, h)) \o Lower(SubSeq(s, h + 1, Len(s)))

\* k in s
Contains(s, k) ==
    \E i \in 0..(Len(s) - Len(k)) : SubSeq(s, i + 1, i + Len(k)) = k

\* s[:n]
Prefix(s, n) == IF Len(s) <= n THEN s ELSE SubSeq(s, 1, n)

RECURSIVE Split(_)
\* s.split("\n")
Split(s) ==
    LET i == IndexIn("\n", s)
    IN  IF i = 0 THEN <<s>>
        ELSE <<SubSeq(s, 1, i - 1)>> \o Split(SubSeq(s, i + 1, Len(s)))

RECURSIVE Join(_)
\* "\n".join(lines)
Join(lines) ==
    IF lines = <<>> THEN ""
    ELSE IF Len(lines) = 1 THEN lines[1]
    ELSE lines[1] \o "\n" \o Join(Tail(lines))

\* s.count("\n")
CountNewlines(s) == Cardinality({i \in 1..Len(s) : Ch(s, i) = "\n"})

\* mutant: no cap on the reported lines
Take_NoCap(seq, n) == seq

\* seq[:n]
Take(seq, n) == IF Len(seq) <= n THEN seq ELSE SubSeq(seq, 1, n)

Min(a, b) == IF a < b THEN a ELSE b

(***************************************************************************)
(* Regular expressions of Python's re, as sequences of items:              *)
(*   Alt(S)         one of the literal strings of S                        *)
(*   Rep(c, lo, hi) lo..hi characters of class c (hi = -1: no upper limit) *)
(*   WB             \b                                                     *)
(* A flag record f says whether re.IGNORECASE and re.DOTALL are given.     *)
(***************************************************************************)
Alt(S) == [k |-> "alt", s |-> S, c |-> "", lo |-> 0, hi |-> 0]
Lit(l) == Alt({l})
Rep(cls, lo, hi) == [k |-> "rep", s |-> {}, c |-> cls, lo |-> lo, hi |-> hi]
Star(cls) == Rep(cls, 0, -1)
WB == [k |-> "wb", s |-> {}, c |-> "", lo |-> 0, hi |-> 0]

Flags(ci, dotall) == [ci |-> ci, dotall |-> dotall]
NoFlags == Flags(FALSE, FALSE)
IgnoreCase == Flags(TRUE, FALSE)

\* \w
WordChars ==
    CharsOf(Lowers) \cup CharsOf(Uppers) \cup CharsOf(Digits) \cup {"_"}
IsWordCh(ch) == ch \in WordChars

InClass(ch, cls, f) ==
    CASE cls = "ws"   -> ch \in {" ", "\t", "\n", "\r", "\f"}   \* \s
      [] cls = "dot"  -> f.dotall \/ ch # "\n"                  \* .
      [] cls = "word" -> IsWordCh(ch)                           \* \w
      [] cls = "nq"   -> ch \notin {"\n", "\"", "'"}            \* [^\n"']
      [] cls = "nrb"  -> ch # "}"                               \* [^}]
      [] cls = "nrp"  -> ch # ")"                               \* [^)]
      [] cls = "ussp" -> ch \in {"_", " "}                      \* [_ ]
      [] OTHER        -> FALSE

AtWordBoundary(text, p) ==
    LET before == p > 0 /\ IsWordCh(Ch(text, p))
        after  == p < Len(text) /\ IsWordCh(Ch(text, p + 1))
    IN  before # after

\* the positions where a match of item it that starts at position p can end
ItemEnds(text, it, p, f) ==
    CASE it.k = "alt" ->
           { p + Len(l) : l \in { m \in it.s :
               /\ p + Len(m) <= Len(text)
               /\ IF f.ci
                  THEN Lower(SubSeq(text, p + 1, p + Len(m))) = Lower(m)
                  ELSE SubSeq(text, p + 1, p + Len(m)) = m } }
      [] it.k = "rep" ->
           LET top == IF it.hi < 0 THEN Len(text) ELSE Min(Len(text), p + it.hi)
           IN  { q \in (p + it.lo)..top :
                   \A i \in (p + 1)..q : InClass(Ch(text, i), it.c, f) }
      [] OTHER -> IF AtWordBoundary(text, p) THEN {p} ELSE {}

RECURSIVE ReEnds(_, _, _, _, _)
\* the positions where a match of re[k..] that starts at a position of P can end
ReEnds(text, re, k, P, f) ==
    IF k > Len(re) \/ P = {} THEN P
    ELSE ReEnds(text, re, k + 1,
                UNION { ItemEnds(text, re[k], p, f) : p \in P }, f)

\* re.search(re, text, flags) is not None
re_search(re, text, f) == ReEnds(text, re, 1, 0..Len(text), f) # {}

\* [i+1 for i, line in enumerate(lines) if pred(line)], here with a regex
LinesMatching(re, lines, f) ==
    SelectSeq([i \in 1..Len(lines) |-> i],
              LAMBDA i : re_search(re, lines[i], f))

\* [i+1 for i, line in enumerate(lines) if k in line]
LinesContaining(k, lines) ==
    SelectSeq([i \in 1..Len(lines) |-> i], LAMBDA i : Contains(lines[i], k))

\* [i+1 for i, line in enumerate(lines) if k in line.lower()]
LinesContainingLower(k, lines) ==
    SelectSeq([i \in 1..Len(lines) |-> i],
              LAMBDA i : Contains(Lower(lines[i]), k))

(***************************************************************************)
(* JSON values and findings.  A field of a finding dict is a tagged value: *)
(* a string, a number, null, or absent (the key is not in the dict).       *)
(***************************************************************************)
Str(s) == [t |-> "str", v |-> s]
Num(s) == [t |-> "num", v |-> s]
Null == [t |-> "null", v |-> ""]
Absent == [t |-> "absent", v |-> ""]

\* a finding dict; explanation and fix_suggestion are never read by the
\* pipeline and are left out
Finding(issue, severity, line_numbers) ==
    [issue |-> issue, severity |-> severity, line_numbers |-> line_numbers,
     original_issue |-> Absent]

(***************************************************************************)
(* run_static_analysis: the rule catalogue, in declaration order.          *)
(***************************************************************************)
Quote == {"\"", "'"}
SqlKeywords == {"SELECT", "INSERT", "UPDATE", "DELETE"}
SecretNames == {"API_KEY", "TOKEN", "PASSWORD", "SECRET"}

sql_injection_patterns ==
    << <<Lit("execute"), Star("ws"), Lit("("), Star("ws"), Lit("f"), Alt(Quote),
         Star("dot"), Alt(SqlKeywords)>>,
       <<Lit("execute"), Star("ws"), Lit("("), Star("ws"), Alt(Quote),
         Star("dot"), Lit("{"), Star("dot"), Alt(SqlKeywords)>>,
       <<Alt(SqlKeywords), Star("dot"), Lit("+"), Star("dot")>> >>

secret_patterns ==
    << <<Alt(SecretNames), Star("ws"), Lit("="), Star("ws"), Alt(Quote),
         Rep("nq", 10, -1), Alt(Quote)>>,
       <<Alt(SecretNames), Star("ws"), Lit(":"), Star("ws"), Alt(Quote),
         Rep("nq", 10, -1), Alt(Quote)>> >>

path_traversal_patterns ==
    << <<Lit("open"), Star("ws"), Lit("("), Star("ws"), Lit("f"), Alt(Quote),
         Star("nq"), Lit("{"), Rep("nrb", 1, -1), Lit("}"), Star("nq"),
         Alt(Quote), Star("ws"), Lit(",")>>,
       <<Lit("open"), Star("ws"), Lit("("), Star("ws"), Alt(Quote), Star("nq"),
         Alt(Quote), Star("ws"), Lit("+"), Star("ws"), Rep("word", 1, -1),
         Star("ws"), Lit(",")>> >>

eval_re == <<WB, Lit("eval"), Star("ws"), Lit("(")>>
child_process_re == <<Lit("child_process.exec"), Star("ws"), Lit("(")>>
os_system_re == <<WB, Lit("os.system"), Star("ws"), Lit("(")>>
subprocess_run_re == <<Lit("subprocess.run"), Star("ws"), Lit("(")>>
subprocess_shell_re ==
    subprocess_run_re \o <<Star("dot"), Lit("shell"), Star("ws"), Lit("="),
                           Star("ws"), Lit("True")>>
requests_get_re == <<Lit("requests.get"), Star("ws"), Lit("(")>>
url_re == <<Alt({"url"})>>
innerhtml_re == <<Lit("innerHTML")>>
pickle_loads_re == <<Lit("pickle.loads"), Star("ws"), Lit("(")>>
pickle_load_re == <<Lit("pickle.load"), Star("ws"), Lit("(")>>
hashlib_md5_re == <<Lit("hashlib.md5"), Star("ws"), Lit("(")>>
md5_re == <<Lit("MD5")>>
debug_flag_re ==
    <<WB, Lit("DEBUG"), WB, Star("ws"), Lit("="), Star("ws"), Lit("True")>>
app_run_debug_re ==
    <<Lit("app.run("), Star("dot"), Lit("debug"), Star("ws"), Lit("="),
      Star("ws"), Lit("True")>>
post_route_re ==
    <<Lit("@app.route("), Star("dot"), Lit("methods=["), Star("dot"),
      Lit("'POST'"), Star("dot"), Lit(")")>>
csrf_re == <<Alt({"csrf", "csrf_token", "csrf_protect"})>>
logging_info_re ==
    <<Lit("logging.info"), Star("ws"), Lit("("), Star("dot"), Lit("password")>>
logging_debug_re ==
    <<Lit("logging.debug"), Star("ws"), Lit("("), Star("dot"), Lit("api"),
      Rep("ussp", 0, 1), Lit("token")>>
param_route_re ==
    <<Lit("@app.route("), Star("nrp"), Lit("<"), Rep("word", 1, -1), Lit(">"),
      Star("nrp"), Lit(")")>>
auth_re ==
    <<Alt({"auth", "login", "required_role", "current_user", "authorize",
           "permission"})>>

RECURSIVE FirstPatternLines(_, _, _, _, _)
\* for pattern in patterns: if re.search(pattern, code, fcode): the lines that
\* match it under fline; the first pattern with a matching line wins (break)
FirstPatternLines(patterns, code, lines, fcode, fline) ==
    IF patterns = <<>> THEN <<>>
    ELSE LET matching_lines ==
                 IF re_search(Head(patterns), code, fcode)
                 THEN LinesMatching(Head(patterns), lines, fline)
                 ELSE <<>>
         IN  IF matching_lines # <<>> THEN matching_lines
             ELSE FirstPatternLines(Tail(patterns), code, lines, fcode, fline)

SetMin(S) == CHOOSE x \in S : \A y \in S : x <= y
SetMax(S) == CHOOSE x \in S : \A y \in S : y <= x

RECURSIVE FindStarts(_, _, _, _)
\* [m.start() for m in re.finditer(re, text, flags)], scanning from offset
\* `from`: the leftmost match, then on from its end.  The end of a match of a
\* secret pattern is unique (the value class excludes the closing quote).
FindStarts(re, text, f, from) ==
    LET S == { p \in from..Len(text) : ReEnds(text, re, 1, {p}, f) # {} }
    IN  IF S = {} THEN <<>>
        ELSE LET p == SetMin(S)
                 e == SetMax(ReEnds(text, re, 1, {p}, f))
             IN  <<p>> \o FindStarts(re, text, f, IF e > p THEN e ELSE e + 1)

RECURSIVE SecretLines(_, _)
\* the secret loop: line numbers of the first three matches of the first
\* pattern that has a match
SecretLines(patterns, code) ==
    IF patterns = <<>> THEN <<>>
    ELSE LET starts == Take(FindStarts(Head(patterns), code, IgnoreCase, 0), 3)
             matching_lines ==
                 [j \in 1..Len(starts) |->
                     CountNewlines(Prefix(code, starts[j])) + 1]
         IN  IF matching_lines # <<>> THEN matching_lines
             ELSE SecretLines(Tail(patterns), code)

\* mutant: every finding is reported as critical
Emit_AllCritical(cond, issue, severity, matching_lines, cap) ==
    IF cond /\ matching_lines # <<>>
    THEN <<Finding(Str(issue), Str("critical"), Take(matching_lines, cap))>>
    ELSE <<>>

\* mutant: one finding for each matching line
Emit_PerLine(cond, issue, severity, matching_lines, cap) ==
    IF cond
    THEN [j \in 1..Len(Take(matching_lines, cap)) |->
             Finding(Str(issue), Str(severity), <<matching_lines[j]>>)]
    ELSE <<>>

\* one rule: if its condition holds and some line matches, one finding
Emit(cond, issue, severity, matching_lines, cap) ==
    IF cond /\ matching_lines # <<>>
    THEN <<Finding(Str(issue), Str(severity), Take(matching_lines, cap))>>
    ELSE <<>>

run_static_analysis(code) ==
    LET lines == Split(code)
    IN     Emit(TRUE, "SQL Injection", "critical",
                FirstPatternLines(sql_injection_patterns, code, lines,
                                  Flags(TRUE, TRUE), IgnoreCase), 5)
        \o Emit(TRUE, "Hardcoded Secret", "critical",
                SecretLines(secret_patterns, code), 3)
        \o Emit(re_search(eval_re, code, NoFlags),
                "Arbitrary Code Execution (eval)", "critical",
                LinesMatching(eval_re, lines, NoFlags), 3)
        \o Emit(re_search(child_process_re, code, NoFlags),
                "Command Injection (exec)", "critical",
                LinesContaining("child_process.exec", lines), 3)
        \o Emit(re_search(os_system_re, code, NoFlags),
                "Command Injection (os.system)", "high",
                LinesMatching(os_system_re, lines, NoFlags), 3)
        \o Emit(re_search(subprocess_shell_re, code, NoFlags),
                "Command Injection (subprocess)", "critical",
                LinesMatching(subprocess_run_re, lines, NoFlags), 3)
        \o Emit(re_search(requests_get_re, code, NoFlags)
                    /\ re_search(url_re, code, NoFlags),
                "SSRF", "high", LinesContaining("requests.get", lines), 3)
        \o Emit(re_search(innerhtml_re, code, IgnoreCase),
                "Cross-Site Scripting (XSS)", "high",
                LinesContaining("innerHTML", lines), 3)
        \o Emit(re_search(pickle_loads_re, code, NoFlags)
                    \/ re_search(pickle_load_re, code, NoFlags),
                "Insecure Deserialization (pickle)", "critical",
                LinesContaining("pickle", lines), 3)
        \o Emit(re_search(hashlib_md5_re, code, NoFlags)
                    \/ re_search(md5_re, code, IgnoreCase),
                "Weak Cryptography (MD5)", "medium",
                LinesContainingLower("md5", lines), 3)
        \o Emit(re_search(debug_flag_re, code, NoFlags)
                    \/ re_search(app_run_debug_re, code, NoFlags),
                "Debug mode enabled", "high",
                SelectSeq([i \in 1..Len(lines) |-> i],
                          LAMBDA i : Contains(lines[i], "DEBUG")
                                       \/ Contains(lines[i], "debug=")), 3)
        \o Emit(re_search(post_route_re, code, NoFlags)
                    /\ ~re_search(csrf_re, code, IgnoreCase),
                "Missing CSRF Protection", "medium",
                LinesContaining("@app.route", lines), 3)
        \o Emit(re_search(logging_info_re, code, IgnoreCase)
                    \/ re_search(logging_debug_re, code, IgnoreCase),
                "Sensitive Data Logging", "medium",
                LinesContainingLower("logging.", lines), 3)
        \o Emit(TRUE, "Path Traversal", "high",
                FirstPatternLines(path_traversal_patterns, code, lines,
                                  IgnoreCase, IgnoreCase), 3)
        \o Emit(re_search(param_route_re, code, NoFlags)
                    /\ ~re_search(auth_re, code, IgnoreCase),
                "IDOR (missing authorization)", "high",
                LinesContaining("@app.route", lines), 3)

(***************************************************************************)
(* verify_ai_finding: the Corroboration Filter.                            *)
(***************************************************************************)
fstring_select_re ==
    <<Lit("f"), Star("ws"), Lit("\""), Star("dot"), Lit("select")>>
plus_quote_re == <<Lit("+"), Star("ws"), Alt(Quote)>>
format_call_re == <<Lit("format"), Star("ws"), Lit("(")>>
os_system_call_re == <<Lit("os.system"), Star("ws"), Lit("(")>>
child_process_exec_re == <<Lit("child_process.exec")>>
secret_assign_re ==
    <<Alt({"api_key", "token", "password", "secret"}), Star("ws"), Lit("="),
      Star("ws"), Alt(Quote)>>

noisy_keywords ==
    {"missing_input_validation", "missing input validation",
     "missing authentication", "missing_authentication",
     "weak_password_hashing", "weak password"}

\* mutant: the check of the generic categories is left out
NoisyIssue_Never(issue) == FALSE

\* line 410: the issue names a generic category that is never accepted
NoisyIssue(issue) == \E k \in noisy_keywords : Contains(issue, k)

\* mutant: an issue of no known category is accepted
default_verdict_Accept == TRUE

\* lines 441-442: the verdict on an issue of no known category
default_verdict == FALSE

\* (v.get("issue") or "").lower(); the merge loop has already lowercased
\* v.get("issue", ""), so a present issue is a string here
IssueText(v) == IF v.issue.t = "str" THEN Lower(v.issue.v) ELSE ""

verify_ai_finding(v, code_text) ==
    LET issue == IssueText(v)
        txt == Lower(code_text)
    IN  IF NoisyIssue(issue) THEN FALSE
        ELSE IF Contains(issue, "sql") \/ Contains(issue, "sql_injection")
        THEN \/ re_search(fstring_select_re, code_text, IgnoreCase)
             \/ re_search(plus_quote_re, code_text, NoFlags)
             \/ re_search(format_call_re, code_text, NoFlags)
        ELSE IF \/ Contains(issue, "command")
                \/ Contains(issue, "subprocess")
                \/ Contains(issue, "os.system")
        THEN \/ re_search(subprocess_run_re, code_text, NoFlags)
             \/ re_search(os_system_call_re, code_text, NoFlags)
             \/ re_search(child_process_exec_re, code_text, NoFlags)
        ELSE IF Contains(issue, "pickle") \/ Contains(issue, "deserial")
        THEN Contains(txt, "pickle")
        ELSE IF Contains(issue, "eval") \/ Contains(issue, "arbitrary code")
        THEN Contains(txt, "eval(")
        ELSE IF Contains(issue, "xss") \/ Contains(issue, "innerhtml")
        THEN Contains(txt, "innerhtml")
        ELSE IF Contains(issue, "ssrf")
        THEN Contains(txt, "requests.get") \/ Contains(txt, "requests.post")
        ELSE IF \/ Contains(issue, "hardcod")
                \/ Contains(issue, "secret")
                \/ Contains(issue, "api_key")
        THEN re_search(secret_assign_re, code_text, IgnoreCase)
        ELSE IF Contains(issue, "idor")
        THEN re_search(param_route_re, code_text, NoFlags)
        ELSE IF Contains(issue, "csrf")
        THEN re_search(post_route_re, code_text, NoFlags)
        ELSE IF Contains(issue, "path")
                /\ (Contains(issue, "travers") \/ Contains(issue, "traversal"))
        THEN \/ re_search(path_traversal_patterns[1], code_text, IgnoreCase)
             \/ re_search(path_traversal_patterns[2], code_text, IgnoreCase)
        ELSE default_verdict

(***************************************************************************)
(* canonicalize_issue: the Canonicalizer.                                  *)
(***************************************************************************)
\* [a-z0-9]
SlugChars == CharsOf(Lowers) \cup CharsOf(Digits)
IsSlugCh(c) == c \in SlugChars

RECURSIVE SubRuns(_, _)
\* re.sub(r"[^a-z0-9]+", "_", s)
SubRuns(s, inRun) ==
    IF s = "" THEN ""
    ELSE IF IsSlugCh(Head(s)) THEN Head(s) \o SubRuns(Tail(s), FALSE)
    ELSE (IF inRun THEN "" ELSE "_") \o SubRuns(Tail(s), TRUE)

RECURSIVE Strip(_)
\* s.strip("_")
Strip(s) ==
    IF s = "" THEN ""
    ELSE IF Head(s) = "_" THEN Strip(Tail(s))
    ELSE IF Ch(s, Len(s)) = "_" THEN Strip(SubSeq(s, 1, Len(s) - 1))
    ELSE s

\* mutant: the eval / arbitrary code rule is tested with the other
\* command_injection rules, before hardcoded_secrets
canonicalize_issue_EvalSecond(issue) ==
    LET s == Lower(issue)
        norm == Strip(SubRuns(s, FALSE))
    IN  IF Contains(s, "sql") /\ Contains(s, "inject") THEN "sql_injection"
        ELSE IF Contains(s, "command") /\ Contains(s, "inject")
        THEN "command_injection"
        ELSE IF \/ Contains(s, "subprocess")
                \/ Contains(s, "os.system")
                \/ Contains(s, "child_process.exec")
        THEN "command_injection"
        ELSE IF \/ Contains(s, "eval")
                \/ Contains(s, "arbitrary code")
                \/ Contains(s, "code execution")
        THEN "command_injection"
        ELSE IF \/ Contains(s, "hardcod")
                \/ Contains(s, "api key")
                \/ Contains(s, "api_token")
                \/ Contains(s, "api token")
                \/ Contains(s, "secret")
        THEN "hardcoded_secrets"
        ELSE IF Contains(s, "path traversal") \/ Contains(s, "path_traversal")
        THEN "path_traversal"
        ELSE IF \/ Contains(s, "deserial")
                \/ Contains(s, "pickle")
                \/ Contains(s, "unsafe deserial")
        THEN "insecure_deserialization"
        ELSE IF \/ Contains(s, "md5")
                \/ Contains(s, "weak crypt")
                \/ Contains(s, "weak cryptography")
        THEN "weak_crypto"
        ELSE IF Contains(s, "debug")
                /\ (Contains(s, "mode") \/ Contains(s, "debug"))
        THEN "debug_enabled"
        ELSE IF \/ Contains(s, "xss")
                \/ Contains(s, "innerhtml")
                \/ Contains(s, "inner html")
        THEN "xss_vulnerability"
        ELSE IF \/ Contains(s, "ssrf")
                \/ Contains(s, "requests.get")
                \/ Contains(s, "user_url")
        THEN "ssrf_vulnerability"
        ELSE IF Contains(s, "idor") \/ Contains(s, "insecure direct object")
        THEN "idor_vulnerability"
        ELSE IF Contains(s, "sensitive")
                /\ (\/ Contains(s, "log")
                    \/ Contains(s, "logging")
                    \/ Contains(s, "password"))
        THEN "sensitive_data_exposure"
        ELSE IF Contains(s, "csrf") THEN "csrf_vulnerability"
        ELSE IF norm # "" THEN norm ELSE s

canonicalize_issue(issue) ==
    LET s == Lower(issue)
        norm == Strip(SubRuns(s, FALSE))
    IN  IF Contains(s, "sql") /\ Contains(s, "inject") THEN "sql_injection"
        ELSE IF Contains(s, "command") /\ Contains(s, "inject")
        THEN "command_injection"
        ELSE IF \/ Contains(s, "subprocess")
                \/ Contains(s, "os.system")
                \/ Contains(s, "child_process.exec")
        THEN "command_injection"
        ELSE IF \/ Contains(s, "hardcod")
                \/ Contains(s, "api key")
                \/ Contains(s, "api_token")
                \/ Contains(s, "api token")
                \/ Contains(s, "secret")
        THEN "hardcoded_secrets"
        ELSE IF Contains(s, "path traversal") \/ Contains(s, "path_traversal")
        THEN "path_traversal"
        ELSE IF \/ Contains(s, "deserial")
                \/ Contains(s, "pickle")
                \/ Contains(s, "unsafe deserial")
        THEN "insecure_deserialization"
        ELSE IF \/ Contains(s, "md5")
                \/ Contains(s, "weak crypt")
                \/ Contains(s, "weak cryptography")
        THEN "weak_crypto"
        ELSE IF Contains(s, "debug")
                /\ (Contains(s, "mode") \/ Contains(s, "debug"))
        THEN "debug_enabled"
        ELSE IF \/ Contains(s, "xss")
                \/ Contains(s, "innerhtml")
                \/ Contains(s, "inner html")
        THEN "xss_vulnerability"
        ELSE IF \/ Contains(s, "ssrf")
                \/ Contains(s, "requests.get")
                \/ Contains(s, "user_url")
        THEN "ssrf_vulnerability"
        ELSE IF Contains(s, "idor") \/ Contains(s, "insecure direct object")
        THEN "idor_vulnerability"
        ELSE IF Contains(s, "sensitive")
                /\ (\/ Contains(s, "log")
                    \/ Contains(s, "logging")
                    \/ Contains(s, "password"))
        THEN "sensitive_data_exposure"
        ELSE IF Contains(s, "csrf") THEN "csrf_vulnerability"
        ELSE IF \/ Contains(s, "eval")
                \/ Contains(s, "arbitrary code")
                \/ Contains(s, "code execution")
        THEN "command_injection"
        ELSE IF norm # "" THEN norm ELSE s

\* mutant: original_issue is set after issue has been replaced
CanonicalizeFinding_OverwritesOriginal(v) ==
    LET orig == IF v.issue.t = "absent" THEN Str("") ELSE v.issue
        canon == Str(canonicalize_issue(IF orig.t = "str" THEN orig.v ELSE ""))
    IN  [v EXCEPT !.original_issue = canon, !.issue = canon]

\* the body of the canonicalization loop, for one finding dict:
\* orig = v.get("issue", ""); v["original_issue"] = orig; v["issue"] = canon
CanonicalizeFinding(v) ==
    LET orig == IF v.issue.t = "absent" THEN Str("") ELSE v.issue
    IN  [v EXCEPT !.original_issue = orig,
                  !.issue = Str(canonicalize_issue(
                                  IF orig.t = "str" THEN orig.v ELSE ""))]

(***************************************************************************)
(* The Scorer.  The penalties are whole numbers held as floats in the      *)
(* source; round(x, 1) leaves them unchanged.                              *)
(***************************************************************************)
\* mutant: a high finding costs 50
severity_penalty_High50(key) ==
    CASE key = "critical" -> 80
      [] key = "high"     -> 50
      [] key = "medium"   -> 40
      [] key = "low"      -> 15
      [] OTHER            -> 15

severity_penalty(key) ==
    CASE key = "critical" -> 80
      [] key = "high"     -> 55
      [] key = "medium"   -> 40
      [] key = "low"      -> 15
      [] OTHER            -> 15

\* (v.get("severity") or "low") is not a str: .lower() raises AttributeError
SeverityRaises(v) == v.severity.t = "num" /\ v.severity.v # "0"

\* mutant: the severity is looked up as it is written, not lowercased
SeverityKey_CaseSensitive(v) ==
    IF v.severity.t = "str" /\ v.severity.v # "" THEN v.severity.v
    ELSE "low"

\* (v.get("severity") or "low").lower()
SeverityKey(v) ==
    IF v.severity.t = "str" /\ v.severity.v # "" THEN Lower(v.severity.v)
    ELSE "low"

Penalty(v) == severity_penalty(SeverityKey(v))

RECURSIVE SumPenalty_WorstOnly(_)
\* mutant: the penalty of the worst finding instead of the sum
SumPenalty_WorstOnly(vulns) ==
    IF vulns = <<>> THEN 0
    ELSE LET rest == SumPenalty_WorstOnly(Tail(vulns))
         IN  IF Penalty(Head(vulns)) > rest THEN Penalty(Head(vulns)) ELSE rest

RECURSIVE SumPenalty(_)
\* sum(severity_penalty.get(..., 15.0) for v in all_vulns)
SumPenalty(vulns) ==
    IF vulns = <<>> THEN 0 ELSE Penalty(Head(vulns)) + SumPenalty(Tail(vulns))

Max(a, b) == IF a > b THEN a ELSE b

\* mutant: the floor at 0 is forgotten
SecurityScore_NoFloor(total_penalty) == 100 - total_penalty

\* line 506
SecurityScore(total_penalty) == Max(0, 100 - total_penalty)

\* mutant: the medium band starts above 60 instead of at 60
RiskLevel_StrictMedium(security_score) ==
    IF security_score >= 80 THEN "low"
    ELSE IF security_score > 60 THEN "medium"
    ELSE IF security_score >= 40 THEN "high"
    ELSE "critical"

\* lines 509-516
RiskLevel(security_score) ==
    IF security_score >= 80 THEN "low"
    ELSE IF security_score >= 60 THEN "medium"
    ELSE IF security_score >= 40 THEN "high"
    ELSE "critical"

(***************************************************************************)
(* Inputs of the model: the code texts analysed and the replies of the     *)
(* LLM (call_chat), which is outside the pipeline and may return anything. *)
(***************************************************************************)
CodeLines ==
    { "db.execute(f\"SELECT {x}\")",    \* dynamic SQL
      "m = \"a\" + \"b\"",              \* string concatenation, no SQL
      "os.system(c)",
      "eval(x)",
      "open(f\"d/{n}\", \"r\")" }

\* the sequences over S of length at most n
SeqUpTo(S, n) == UNION { [1..m -> S] : m \in 0..n }

Codes == { Join(ls) : ls \in SeqUpTo(CodeLines, MaxLines) }

\* findings an LLM reply may list
ExtFindings ==
    { Finding(Str("SQL Injection"), Str("Medium"), <<>>),
      Finding(Str("sql injection"), Str("info"), <<>>),
      Finding(Str("Command Injection"), Absent, <<>>),
      Finding(Str("command injection"), Str("Critical"), <<>>),
      Finding(Str("path_traversal"), Num("7"), <<>>),
      Finding(Str("Insecure Randomness"), Str("low"), <<>>),
      Finding(Str("SQL Injection via Missing Input Validation"),
              Str("high"), <<>>),
      Finding(Null, Str("low"), <<>>) }

\* json.loads of a reply: a JSON object with a "vulnerabilities" list, a JSON
\* object without that key (as _mock_response gives), or a JSON value that
\* is no object
ParsedObject(has, vulns) ==
    [kind |-> "object", has_vulnerabilities |-> has, vulnerabilities |-> vulns]
NonObject ==
    [kind |-> "nonobject", has_vulnerabilities |-> FALSE,
     vulnerabilities |-> <<>>]
ParsedReplies ==
    { ParsedObject(TRUE, vs) : vs \in SeqUpTo(ExtFindings, MaxExt) }
        \cup { ParsedObject(FALSE, <<>>), NonObject }

\* what retrieve_security_docs gets from the seeded vector store for k = 3:
\* the ids of three snippets of security_knowledge
retrieve_security_docs == <<"sql_injection", "xss", "hardcoded_secrets">>

NoResult ==
    [vulnerabilities |-> <<>>, security_score |-> 0, risk_score |-> 0,
     risk_level |-> "", evidence_ids |-> <<>>]

(***************************************************************************)
(* State of one analyze_code_security call.                                *)
(***************************************************************************)
VARIABLES
    pc,                  \* where the call is: idle, await_chat, await_fix,
                         \* merge, score, done, raised
    code,                \* the code text analysed
    static_vulns,        \* the list run_static_analysis returned
    emitted,             \* history: static_vulns as first returned
    rag_docs,            \* the retrieved snippets (ids)
    SECURITY_LOG,        \* the module-level log
    parsed,              \* the parsed LLM reply
    ai_vulns,            \* parsed.get("vulnerabilities", [])
    all_vulns,           \* the merged list
    static_issue_names,  \* the seen set of lowercased issue texts
    idx,                 \* position of the merge loop in ai_vulns
    result,              \* the returned dict
    first,               \* history: inputs and outcome of the call before
    call,                \* a direct call of one function: name, argument,
                         \* returned value
    chat_calls,          \* history: the calls of call_chat the call has made,
                         \* each with its prompt and the kind of its reply
    suspended            \* the frame of a second analyze_code_security call
                         \* that is not running: not started, or at an await

vars == <<pc, code, static_vulns, emitted, rag_docs, SECURITY_LOG, parsed,
          ai_vulns, all_vulns, static_issue_names, idx, result, first, call,
          chat_calls, suspended>>

\* no call of analyze_code_security has returned yet
NoEarlierCall ==
    [called |-> FALSE, code |-> "", merged |-> FALSE, ai_vulns |-> <<>>,
     pc |-> "idle", result |-> NoResult]

\* no function has been called directly
NoCall == [fn |-> "", arg |-> <<>>, ret |-> <<>>]

\* the frame of a call that has not started
IdleFrame ==
    [pc |-> "idle", code |-> "", static_vulns |-> <<>>, emitted |-> <<>>,
     rag_docs |-> <<>>, parsed |-> NonObject, ai_vulns |-> <<>>,
     all_vulns |-> <<>>, static_issue_names |-> {}, idx |-> 1,
     result |-> NoResult, chat_calls |-> <<>>]

Init ==
    /\ pc = "idle"
    /\ code = ""
    /\ static_vulns = <<>>
    /\ emitted = <<>>
    /\ rag_docs = <<>>
    /\ SECURITY_LOG = <<>>
    /\ parsed = NonObject
    /\ ai_vulns = <<>>
    /\ all_vulns = <<>>
    /\ static_issue_names = {}
    /\ idx = 1
    /\ result = NoResult
    /\ first = NoEarlierCall
    /\ call = NoCall
    /\ chat_calls = <<>>
    /\ suspended = IdleFrame

\* the parts of ai_prompt that depend on the code text (lines 292-299): its
\* length, its first 5000 characters, and how many characters were left out
ai_prompt(c) ==
    [kind |-> "audit",
     total_length |-> Len(c),
     code_content |-> Prefix(c, 5000),
     more_characters |-> IF Len(c) > 5000 THEN Len(c) - 5000 ELSE 0]

\* line 384: the repair prompt holds the first reply, no code
fix_prompt ==
    [kind |-> "fix", total_length |-> 0, code_content |-> "",
     more_characters |-> 0]

\* await call_chat(prompt): the call is made, the reply is awaited
ChatCall(prompt) == [prompt |-> prompt, reply |-> "pending"]

\* the reply of the last call_chat has come: JSON ("json") or not ("not_json")
Replied(calls, kind) == [calls EXCEPT ![Len(calls)].reply = kind]

\* the readings of time.time()
Times == 1..MaxTime

\* mutant: the static analysis is skipped for a code text whose prefix the
\* log already holds
AnalyzeCode_SkipsLoggedInput(c) ==
    /\ pc = "idle"
    /\ code' = c
    /\ static_vulns' =
           IF \E k \in 1..Len(SECURITY_LOG) :
                  SECURITY_LOG[k].input = Prefix(c, 200)
           THEN <<>>
           ELSE run_static_analysis(c)
    /\ emitted' = static_vulns'
    /\ rag_docs' = retrieve_security_docs
    /\ \E t \in Times :
           SECURITY_LOG' =
               Append(SECURITY_LOG, [input |-> Prefix(c, 200),
                                     results |-> retrieve_security_docs,
                                     time |-> t])
    /\ chat_calls' = <<ChatCall(ai_prompt(c))>>
    /\ pc' = "await_chat"
    /\ UNCHANGED <<parsed, ai_vulns, all_vulns, static_issue_names, idx, result,
                   first, call, suspended>>

\* mutant: the log record holds the whole code text
AnalyzeCode_LogsWholeCode(c) ==
    /\ pc = "idle"
    /\ code' = c
    /\ static_vulns' = run_static_analysis(c)
    /\ emitted' = static_vulns'
    /\ rag_docs' = retrieve_security_docs
    /\ \E t \in Times :
           SECURITY_LOG' =
               Append(SECURITY_LOG, [input |-> c,
                                     results |-> retrieve_security_docs,
                                     time |-> t])
    /\ chat_calls' = <<ChatCall(ai_prompt(c))>>
    /\ pc' = "await_chat"
    /\ UNCHANGED <<parsed, ai_vulns, all_vulns, static_issue_names, idx, result,
                   first, call, suspended>>

\* mutant: the static analysis is given the text the prompt is given
AnalyzeCode_StaticOnPrompt(c) ==
    /\ pc = "idle"
    /\ code' = c
    /\ static_vulns' = run_static_analysis(Prefix(c, 5000))
    /\ emitted' = static_vulns'
    /\ rag_docs' = retrieve_security_docs
    /\ \E t \in Times :
           SECURITY_LOG' =
               Append(SECURITY_LOG, [input |-> Prefix(c, 200),
                                     results |-> retrieve_security_docs,
                                     time |-> t])
    /\ chat_calls' = <<ChatCall(ai_prompt(c))>>
    /\ pc' = "await_chat"
    /\ UNCHANGED <<parsed, ai_vulns, all_vulns, static_issue_names, idx, result,
                   first, call, suspended>>

\* lines 275-377 for the code text c: static analysis, RAG retrieval (which
\* appends to SECURITY_LOG), the prompt, and the first call_chat
AnalyzeCode(c) ==
    /\ pc = "idle"
    /\ code' = c
    /\ static_vulns' = run_static_analysis(c)
    /\ emitted' = static_vulns'
    /\ rag_docs' = retrieve_security_docs
    /\ \E t \in Times :
           SECURITY_LOG' =
               Append(SECURITY_LOG, [input |-> Prefix(c, 200),
                                     results |-> retrieve_security_docs,
                                     time |-> t])
    /\ chat_calls' = <<ChatCall(ai_prompt(c))>>
    /\ pc' = "await_chat"
    /\ UNCHANGED <<parsed, ai_vulns, all_vulns, static_issue_names, idx, result,
                   first, call, suspended>>

\* analyze_code_security is called on a code text
Analyze == \E c \in Codes : AnalyzeCode(c)

\* mutant: the seen set does not start from the heuristic issue names
StartMerge_EmptySeen(p) ==
    /\ parsed' = p
    /\ IF p.kind = "object"
       THEN /\ ai_vulns' = IF p.has_vulnerabilities THEN p.vulnerabilities
                           ELSE <<>>
            /\ all_vulns' = static_vulns
            /\ static_issue_names' = {}
            /\ pc' = "merge"
       ELSE /\ pc' = "raised"
            /\ UNCHANGED <<ai_vulns, all_vulns, static_issue_names>>
    /\ idx' = 1
    /\ UNCHANGED <<code, static_vulns, emitted, rag_docs, SECURITY_LOG, result,
                   first, call, suspended>>

\* mutant: parsed["vulnerabilities"] instead of parsed.get: a reply without
\* the key raises KeyError
StartMerge_KeyError(p) ==
    /\ parsed' = p
    /\ IF p.kind = "object" /\ p.has_vulnerabilities
       THEN /\ ai_vulns' = p.vulnerabilities
            /\ all_vulns' = static_vulns
            /\ static_issue_names' =
                   { IssueText(static_vulns[j]) : j \in 1..Len(static_vulns) }
            /\ pc' = "merge"
       ELSE /\ pc' = "raised"
            /\ UNCHANGED <<ai_vulns, all_vulns, static_issue_names>>
    /\ idx' = 1
    /\ UNCHANGED <<code, static_vulns, emitted, rag_docs, SECURITY_LOG, result,
                   first, call, suspended>>

\* lines 399-401, run as soon as parsed is known
StartMerge(p) ==
    /\ parsed' = p
    /\ IF p.kind = "object"
       THEN /\ ai_vulns' = IF p.has_vulnerabilities THEN p.vulnerabilities
                           ELSE <<>>
            /\ all_vulns' = static_vulns
            /\ static_issue_names' =
                   { IssueText(static_vulns[j]) : j \in 1..Len(static_vulns) }
            /\ pc' = "merge"
       ELSE \* parsed.get raises AttributeError
            /\ pc' = "raised"
            /\ UNCHANGED <<ai_vulns, all_vulns, static_issue_names>>
    /\ idx' = 1
    /\ UNCHANGED <<code, static_vulns, emitted, rag_docs, SECURITY_LOG, result,
                   first, call, suspended>>

\* line 381: the first reply parses
ChatReplyParsed ==
    /\ pc = "await_chat"
    /\ \E p \in ParsedReplies : StartMerge(p)
    /\ chat_calls' = Replied(chat_calls, "json")

\* lines 382-385: the first reply does not parse; the repair call is made
ChatReplyUnparseable ==
    /\ pc = "await_chat"
    /\ pc' = "await_fix"
    /\ chat_calls' = Append(Replied(chat_calls, "not_json"),
                            ChatCall(fix_prompt))
    /\ UNCHANGED <<code, static_vulns, emitted, rag_docs, SECURITY_LOG, parsed,
                   ai_vulns, all_vulns, static_issue_names, idx, result, first,
                   call, suspended>>

\* line 387: the repaired reply parses
FixReplyParsed ==
    /\ pc = "await_fix"
    /\ \E p \in ParsedReplies : StartMerge(p)
    /\ chat_calls' = Replied(chat_calls, "json")

\* mutant: after a repaired reply that does not parse, the repair is asked
\* for once more
FixReplyUnparseable_AsksAgain ==
    /\ pc = "await_fix"
    /\ Len(chat_calls) < 4
    /\ chat_calls' = Append(Replied(chat_calls, "not_json"),
                            ChatCall(fix_prompt))
    /\ UNCHANGED <<pc, code, static_vulns, emitted, rag_docs, SECURITY_LOG,
                   parsed, ai_vulns, all_vulns, static_issue_names, idx, result,
                   first, call, suspended>>

\* lines 388-395: the repaired reply does not parse either; parsed falls
\* back to the static findings
FixReplyUnparseable ==
    /\ pc = "await_fix"
    /\ StartMerge(ParsedObject(TRUE, static_vulns))
    /\ chat_calls' = Replied(chat_calls, "not_json")

\* line 445: v.get("issue", "").lower()
IssueNameRaises(v) == v.issue.t \in {"null", "num"}
issue_name(v) == IF v.issue.t = "str" THEN Lower(v.issue.v) ELSE ""

MergeFrame == UNCHANGED <<code, static_vulns, emitted, rag_docs, SECURITY_LOG,
                          parsed, ai_vulns, result, first, call, chat_calls,
                          suspended>>

\* line 445 on an issue that is no string: AttributeError
MergeRaise ==
    /\ pc = "merge" /\ idx <= Len(ai_vulns)
    /\ IssueNameRaises(ai_vulns[idx])
    /\ pc' = "raised"
    /\ UNCHANGED <<all_vulns, static_issue_names, idx>>
    /\ MergeFrame

\* lines 446-447: already seen
MergeSkip ==
    /\ pc = "merge" /\ idx <= Len(ai_vulns)
    /\ ~IssueNameRaises(ai_vulns[idx])
    /\ issue_name(ai_vulns[idx]) \in static_issue_names
    /\ idx' = idx + 1
    /\ UNCHANGED <<pc, all_vulns, static_issue_names>>
    /\ MergeFrame

\* mutant: an accepted finding is put in front of the list
MergeAccept_Prepend ==
    /\ pc = "merge" /\ idx <= Len(ai_vulns)
    /\ ~IssueNameRaises(ai_vulns[idx])
    /\ issue_name(ai_vulns[idx]) \notin static_issue_names
    /\ verify_ai_finding(ai_vulns[idx], code)
    /\ all_vulns' = <<ai_vulns[idx]>> \o all_vulns
    /\ static_issue_names' = static_issue_names \cup {issue_name(ai_vulns[idx])}
    /\ idx' = idx + 1
    /\ UNCHANGED pc
    /\ MergeFrame

\* mutant: an accepted finding is not added to the seen set
MergeAccept_ForgetsSeen ==
    /\ pc = "merge" /\ idx <= Len(ai_vulns)
    /\ ~IssueNameRaises(ai_vulns[idx])
    /\ issue_name(ai_vulns[idx]) \notin static_issue_names
    /\ verify_ai_finding(ai_vulns[idx], code)
    /\ all_vulns' = Append(all_vulns, ai_vulns[idx])
    /\ idx' = idx + 1
    /\ UNCHANGED <<pc, static_issue_names>>
    /\ MergeFrame

\* lines 449-451: corroborated
MergeAccept ==
    /\ pc = "merge" /\ idx <= Len(ai_vulns)
    /\ ~IssueNameRaises(ai_vulns[idx])
    /\ issue_name(ai_vulns[idx]) \notin static_issue_names
    /\ verify_ai_finding(ai_vulns[idx], code)
    /\ all_vulns' = Append(all_vulns, ai_vulns[idx])
    /\ static_issue_names' = static_issue_names \cup {issue_name(ai_vulns[idx])}
    /\ idx' = idx + 1
    /\ UNCHANGED pc
    /\ MergeFrame

\* mutant: a rejected finding is remembered in the seen set
MergeReject_Remembers ==
    /\ pc = "merge" /\ idx <= Len(ai_vulns)
    /\ ~IssueNameRaises(ai_vulns[idx])
    /\ issue_name(ai_vulns[idx]) \notin static_issue_names
    /\ ~verify_ai_finding(ai_vulns[idx], code)
    /\ static_issue_names' = static_issue_names \cup {issue_name(ai_vulns[idx])}
    /\ idx' = idx + 1
    /\ UNCHANGED <<pc, all_vulns>>
    /\ MergeFrame

\* lines 452-453: not corroborated
MergeReject ==
    /\ pc = "merge" /\ idx <= Len(ai_vulns)
    /\ ~IssueNameRaises(ai_vulns[idx])
    /\ issue_name(ai_vulns[idx]) \notin static_issue_names
    /\ ~verify_ai_finding(ai_vulns[idx], code)
    /\ idx' = idx + 1
    /\ UNCHANGED <<pc, all_vulns, static_issue_names>>
    /\ MergeFrame

\* mutant: only the heuristic findings are canonicalized
Canonicalize_SkipsExternal ==
    /\ pc = "merge" /\ idx > Len(ai_vulns)
    /\ all_vulns' = [j \in 1..Len(all_vulns) |->
                        IF j <= Len(static_vulns)
                        THEN CanonicalizeFinding(all_vulns[j])
                        ELSE all_vulns[j]]
    /\ static_vulns' =
           [j \in 1..Len(static_vulns) |-> CanonicalizeFinding(all_vulns[j])]
    /\ pc' = "score"
    /\ UNCHANGED <<code, emitted, rag_docs, SECURITY_LOG, parsed, ai_vulns,
                   static_issue_names, idx, result, first, call, chat_calls, suspended>>

\* lines 492-496: every dict of all_vulns gets original_issue and the
\* canonical issue; the first Len(static_vulns) dicts are the very dicts of
\* static_vulns (list.copy() is shallow)
Canonicalize ==
    /\ pc = "merge" /\ idx > Len(ai_vulns)
    /\ all_vulns' = [j \in 1..Len(all_vulns) |-> CanonicalizeFinding(all_vulns[j])]
    /\ static_vulns' =
           [j \in 1..Len(static_vulns) |-> CanonicalizeFinding(all_vulns[j])]
    /\ pc' = "score"
    /\ UNCHANGED <<code, emitted, rag_docs, SECURITY_LOG, parsed, ai_vulns,
                   static_issue_names, idx, result, first, call, chat_calls, suspended>>

\* lines 504-533
Score ==
    /\ pc = "score"
    /\ IF \E j \in 1..Len(all_vulns) : SeverityRaises(all_vulns[j])
       THEN /\ pc' = "raised"
            /\ UNCHANGED result
       ELSE LET total_penalty == SumPenalty(all_vulns)
                security_score == SecurityScore(total_penalty)
            IN  /\ result' = [vulnerabilities |-> all_vulns,
                              security_score |-> security_score,
                              risk_score |-> total_penalty,
                              risk_level |-> RiskLevel(security_score),
                              evidence_ids |-> rag_docs]
                /\ pc' = "done"
    /\ UNCHANGED <<code, static_vulns, emitted, rag_docs, SECURITY_LOG, parsed,
                   ai_vulns, all_vulns, static_issue_names, idx, first, call, chat_calls, suspended>>

Next ==
    \/ Analyze
    \/ ChatReplyParsed
    \/ ChatReplyUnparseable
    \/ FixReplyParsed
    \/ FixReplyUnparseable
    \/ MergeRaise
    \/ MergeSkip
    \/ MergeAccept
    \/ MergeReject
    \/ Canonicalize
    \/ Score

Spec == Init /\ [][Next]_vars

(***************************************************************************)
(* analyze_code_security called a second time, after the first call has    *)
(* returned or raised, on the same code text and with the same external    *)
(* findings.  The frame of the first call is gone; SECURITY_LOG stays.     *)
(***************************************************************************)
\* the first call is over and its locals are discarded; the next call starts
CallAgain ==
    /\ pc \in {"done", "raised"}
    /\ ~first.called
    /\ first' = [called |-> TRUE, code |-> code,
                 merged |-> parsed.kind = "object", ai_vulns |-> ai_vulns,
                 pc |-> pc, result |-> result]
    /\ pc' = "idle"
    /\ code' = ""
    /\ static_vulns' = <<>>
    /\ emitted' = <<>>
    /\ rag_docs' = <<>>
    /\ parsed' = NonObject
    /\ ai_vulns' = <<>>
    /\ all_vulns' = <<>>
    /\ static_issue_names' = {}
    /\ idx' = 1
    /\ result' = NoResult
    /\ chat_calls' = <<>>
    /\ UNCHANGED <<SECURITY_LOG, call, suspended>>

\* the second call is given the code text of the first
SameCode == IF first.called THEN code' = first.code ELSE TRUE

\* the reply of the second call holds the external findings of the first,
\* or is no JSON object, as the reply of the first
SameFindings ==
    first.called =>
        IF pc' = "merge" THEN first.merged /\ ai_vulns' = first.ai_vulns
        ELSE ~first.merged

NextRepeat ==
    \/ SameCode /\ Analyze
    \/ ChatReplyParsed /\ SameFindings
    \/ ChatReplyUnparseable
    \/ FixReplyParsed /\ SameFindings
    \/ FixReplyUnparseable /\ SameFindings
    \/ MergeRaise
    \/ MergeSkip
    \/ MergeAccept
    \/ MergeReject
    \/ Canonicalize
    \/ Score
    \/ CallAgain

SpecRepeat == Init /\ [][NextRepeat]_vars

(***************************************************************************)
(* analyze_code_security called on a code text that is longer than the     *)
(* part of it the prompt holds, or than the part the log holds.            *)
(***************************************************************************)
RECURSIVE Repeat(_, _)
\* s * n
Repeat(s, n) ==
    IF n = 0 THEN ""
    ELSE LET h == Repeat(s, n \div 2)
         IN  IF n % 2 = 0 THEN h \o h ELSE h \o h \o s

\* a comment line of 5000 characters before a construct, after a construct,
\* and before a string concatenation that is no SQL
LongCodes ==
    { Repeat("#", 5000) \o "\nos.system(c)",
      "os.system(c)\n" \o Repeat("#", 5000),
      Repeat("#", 5000) \o "\nm = \"a\" + \"b\"" }

AnalyzeLong == \E c \in LongCodes : AnalyzeCode(c)

\* the reply lists at most MaxExtFew findings
FewFindings == Len(parsed'.vulnerabilities) <= MaxExtFew

NextLong ==
    \/ AnalyzeLong
    \/ ChatReplyParsed /\ FewFindings
    \/ ChatReplyUnparseable
    \/ FixReplyParsed /\ FewFindings
    \/ FixReplyUnparseable
    \/ MergeRaise
    \/ MergeSkip
    \/ MergeAccept
    \/ MergeReject
    \/ Canonicalize
    \/ Score

SpecLong == Init /\ [][NextLong]_vars

(***************************************************************************)
(* Two analyze_code_security calls on one event loop.  A call runs until   *)
(* it awaits call_chat or is over; then the other call may run.  Each call *)
(* has its own frame of locals; SECURITY_LOG is the one module-level       *)
(* object both append to.                                                  *)
(***************************************************************************)
\* the frame of the running call
Frame ==
    [pc |-> pc, code |-> code, static_vulns |-> static_vulns,
     emitted |-> emitted, rag_docs |-> rag_docs, parsed |-> parsed,
     ai_vulns |-> ai_vulns, all_vulns |-> all_vulns,
     static_issue_names |-> static_issue_names, idx |-> idx,
     result |-> result, chat_calls |-> chat_calls]

\* mutant: static_vulns is one module-level list, not a local of each call
Yield_SharedStaticVulns ==
    /\ pc \in {"await_chat", "await_fix", "done", "raised"}
    /\ suspended.pc \in {"idle", "await_chat", "await_fix"}
    /\ suspended' = Frame
    /\ pc' = suspended.pc
    /\ code' = suspended.code
    /\ emitted' = suspended.emitted
    /\ rag_docs' = suspended.rag_docs
    /\ parsed' = suspended.parsed
    /\ ai_vulns' = suspended.ai_vulns
    /\ all_vulns' = suspended.all_vulns
    /\ static_issue_names' = suspended.static_issue_names
    /\ idx' = suspended.idx
    /\ result' = suspended.result
    /\ chat_calls' = suspended.chat_calls
    /\ UNCHANGED <<static_vulns, SECURITY_LOG, first, call>>

\* lines 377 and 385: the running call awaits call_chat, or it is over; the
\* event loop runs the other call, which has not started or awaits a reply
Yield ==
    /\ pc \in {"await_chat", "await_fix", "done", "raised"}
    /\ suspended.pc \in {"idle", "await_chat", "await_fix"}
    /\ suspended' = Frame
    /\ pc' = suspended.pc
    /\ code' = suspended.code
    /\ static_vulns' = suspended.static_vulns
    /\ emitted' = suspended.emitted
    /\ rag_docs' = suspended.rag_docs
    /\ parsed' = suspended.parsed
    /\ ai_vulns' = suspended.ai_vulns
    /\ all_vulns' = suspended.all_vulns
    /\ static_issue_names' = suspended.static_issue_names
    /\ idx' = suspended.idx
    /\ result' = suspended.result
    /\ chat_calls' = suspended.chat_calls
    /\ UNCHANGED <<SECURITY_LOG, first, call>>

\* the code texts of the two calls: two short ones, and one longer than the
\* 200 characters the log keeps
ConcurrentCodes ==
    { "os.system(c)",
      "eval(x)",
      Repeat("#", 200) \o "\nos.system(c)" }

AnalyzeConcurrent == \E c \in ConcurrentCodes : AnalyzeCode(c)

NextConcurrent ==
    \/ AnalyzeConcurrent
    \/ ChatReplyParsed /\ FewFindings
    \/ ChatReplyUnparseable
    \/ FixReplyParsed /\ FewFindings
    \/ FixReplyUnparseable
    \/ MergeRaise
    \/ MergeSkip
    \/ MergeAccept
    \/ MergeReject
    \/ Canonicalize
    \/ Score
    \/ Yield

SpecConcurrent == Init /\ [][NextConcurrent]_vars

(***************************************************************************)
(* The functions called on their own: run_static_analysis on a code text   *)
(* and canonicalize_issue on an issue text, over inputs that reach every   *)
(* rule of both.                                                           *)
(***************************************************************************)
\* one line for each rule of run_static_analysis, and a line for the third
\* pattern of the SQL Injection rule
UnitLines ==
    { "db.execute(f\"SELECT {x}\")",
      "q = \"SELECT \" + x",
      "API_KEY = \"sk-1234567890\"",
      "eval(x)",
      "child_process.exec(c)",
      "os.system(c)",
      "subprocess.run(c, shell=True)",
      "requests.get(url)",
      "e.innerHTML = x",
      "pickle.loads(b)",
      "hashlib.md5(p)",
      "DEBUG = True",
      "@app.route('/p', methods=['POST'])",
      "logging.info(password)",
      "open(f\"d/{n}\", \"r\")",
      "@app.route('/u/<id>')" }

UnitCodes == { Join(ls) : ls \in SeqUpTo(UnitLines, MaxLines) }

\* code texts of more matching lines than a rule reports: four to ManyLines
\* copies of one line
RepeatedCodes ==
    { Join([i \in 1..n |-> l]) : l \in UnitLines, n \in 4..ManyLines }

\* code texts where a construct is spread over two lines, and a line with
\* two secrets
EdgeCodes ==
    { "eval\n(x)",
      "os.system\n(c)",
      "db.execute(f\"\nSELECT {x}\")",
      "open(f\"d/{n}\"\n, \"r\")",
      "TOKEN = \"aaaaaaaaaaaa\"; SECRET = \"bbbbbbbbbbbb\"",
      "x = 1\nTOKEN = \"aaaaaaaaaaaa\"\nSECRET = \"bbbbbbbbbbbb\"" }

\* the code texts run_static_analysis is called on
AnalysedCodes == UnitCodes \cup RepeatedCodes \cup EdgeCodes

\* issue texts: the names the rules of run_static_analysis emit, canonical
\* ids, texts that only the slug fallback handles, and texts without any
\* letter or digit
IssueTexts ==
    { "SQL Injection", "Hardcoded Secret", "Arbitrary Code Execution (eval)",
      "Command Injection (exec)", "Command Injection (os.system)",
      "Command Injection (subprocess)", "SSRF", "Cross-Site Scripting (XSS)",
      "Insecure Deserialization (pickle)", "Weak Cryptography (MD5)",
      "Debug mode enabled", "Missing CSRF Protection",
      "Sensitive Data Logging", "Path Traversal",
      "IDOR (missing authorization)",
      "weak_crypto", "sensitive_data_exposure", "xss_vulnerability",
      "Insecure Randomness", "a--b", "api-token", "Path-Traversal bug",
      "user-url fetch", "", "!!",
      "Arbitrary code execution via pickle", "SQL command injection" }

analysis_vars == <<pc, code, static_vulns, emitted, rag_docs, SECURITY_LOG,
                   parsed, ai_vulns, all_vulns, static_issue_names, idx,
                   result, first, chat_calls, suspended>>

\* run_static_analysis(code), called on its own
CallRunStaticAnalysis ==
    /\ call.fn = ""
    /\ \E c \in AnalysedCodes :
           call' = [fn |-> "run_static_analysis", arg |-> c,
                    ret |-> run_static_analysis(c)]
    /\ UNCHANGED analysis_vars

\* canonicalize_issue(issue), called on its own
CallCanonicalizeIssue ==
    /\ call.fn = ""
    /\ \E s \in IssueTexts :
           call' = [fn |-> "canonicalize_issue", arg |-> s,
                    ret |-> canonicalize_issue(s)]
    /\ UNCHANGED analysis_vars

\* canonicalize_issue called on what canonicalize_issue returned
CanonicalizeReturned ==
    /\ call.fn = "canonicalize_issue"
    /\ call' = [fn |-> "canonicalize_issue", arg |-> call.ret,
                ret |-> canonicalize_issue(call.ret)]
    /\ UNCHANGED analysis_vars

NextFunctions ==
    \/ CallRunStaticAnalysis
    \/ CallCanonicalizeIssue
    \/ CanonicalizeReturned

SpecFunctions == Init /\ [][NextFunctions]_vars

(***************************************************************************)
(* The claims.                                                             *)
(***************************************************************************)
\* the penalty table as the specification states it: looked up by the
\* lowercased severity, 15 for anything missing or unrecognised
ClaimPenalty(v) ==
    LET key == IF v.severity.t = "str" THEN Lower(v.severity.v) ELSE ""
    IN  CASE key = "critical" -> 80
          [] key = "high"     -> 55
          [] key = "medium"   -> 40
          [] OTHER            -> 15

RECURSIVE ClaimTotal(_)
ClaimTotal(vulns) ==
    IF vulns = <<>> THEN 0
    ELSE ClaimPenalty(Head(vulns)) + ClaimTotal(Tail(vulns))

\* C1: scoring the final list never raises, and the risk_score it reports is
\* the sum over the findings of the final list of the penalty of their
\* severity (critical 80, high 55, medium 40, low 15; case-insensitive; 15
\* for a missing or unrecognised severity).
C1_PenaltySumNeverRaises ==
    [][pc = "score" =>
         /\ pc' = "done"
         /\ result'.vulnerabilities = all_vulns
         /\ result'.risk_score = ClaimTotal(all_vulns)]_vars

\* C2: in every result security_score is max(0, 100 - total_penalty), where
\* total_penalty is the sum of the penalties of the returned findings, and so
\* lies between 0 and 100.
C2_ScoreIsClampedDifference ==
    pc = "done" =>
        LET total == ClaimTotal(result.vulnerabilities)
        IN  /\ result.security_score = (IF total >= 100 THEN 0 ELSE 100 - total)
            /\ result.security_score \in 0..100

\* C2 witness: a result whose penalties exceed 100 and whose score is 0
C2_Witness ==
    /\ pc = "done"
    /\ ClaimTotal(result.vulnerabilities) > 100
    /\ result.security_score = 0

\* C3: in every result risk_level is fixed by security_score: low from 80,
\* medium from 60 to below 80, high from 40 to below 60, critical below 40;
\* no other label occurs.
C3_RiskLevelBreakpoints ==
    pc = "done" =>
        /\ result.risk_level \in {"low", "medium", "high", "critical"}
        /\ result.risk_level = "low" <=> result.security_score >= 80
        /\ result.risk_level = "medium" <=>
               (result.security_score >= 60 /\ result.security_score < 80)
        /\ result.risk_level = "high" <=>
               (result.security_score >= 40 /\ result.security_score < 60)
        /\ result.risk_level = "critical" <=> result.security_score < 40

\* C3 witness: a result exactly on the breakpoint 60, labelled medium
C3_Witness ==
    /\ pc = "done"
    /\ result.security_score = 60
    /\ result.risk_level = "medium"

\* the rule catalogue of the Pattern Matcher, in declaration order
ClaimCatalogue ==
    << "SQL Injection", "Hardcoded Secret", "Arbitrary Code Execution (eval)",
       "Command Injection (exec)", "Command Injection (os.system)",
       "Command Injection (subprocess)", "SSRF", "Cross-Site Scripting (XSS)",
       "Insecure Deserialization (pickle)", "Weak Cryptography (MD5)",
       "Debug mode enabled", "Missing CSRF Protection",
       "Sensitive Data Logging", "Path Traversal",
       "IDOR (missing authorization)" >>

ClaimCatalogueIndex(issue) ==
    IF \E i \in 1..Len(ClaimCatalogue) : ClaimCatalogue[i] = issue
    THEN CHOOSE i \in 1..Len(ClaimCatalogue) : ClaimCatalogue[i] = issue
    ELSE 0

\* the issue a finding came with: original_issue once canonicalized
ClaimRawIssue(v) ==
    IF v.original_issue.t = "absent" THEN v.issue ELSE v.original_issue

\* finding a is the finding e as it was emitted or supplied
ClaimSameFinding(a, e) ==
    /\ ClaimRawIssue(a) = e.issue
    /\ a.severity = e.severity
    /\ a.line_numbers = e.line_numbers

RECURSIVE ClaimIsSubsequence(_, _)
\* the findings of a are findings of b, in the order of b
ClaimIsSubsequence(a, b) ==
    IF a = <<>> THEN TRUE
    ELSE IF b = <<>> THEN FALSE
    ELSE IF ClaimSameFinding(Head(a), Head(b))
    THEN ClaimIsSubsequence(Tail(a), Tail(b))
    ELSE ClaimIsSubsequence(a, Tail(b))

\* the lowercased issue text of a supplied finding ("" if it has none)
ClaimIssueText(v) == IF v.issue.t = "str" THEN Lower(v.issue.v) ELSE ""

\* C4: from the start of the merge on, the merged list begins with all
\* heuristic findings as emitted, in catalogue order, followed by external
\* findings in the order they were supplied; the returned list is that list.
C4_HeuristicsFirstThenExternal ==
    pc \in {"merge", "score", "done"} =>
        /\ Len(all_vulns) >= Len(emitted)
        /\ \A j \in 1..Len(emitted) : ClaimSameFinding(all_vulns[j], emitted[j])
        /\ \A j \in 1..Len(emitted) :
               ClaimCatalogueIndex(emitted[j].issue.v) > 0
        /\ \A j \in 1..(Len(emitted) - 1) :
               ClaimCatalogueIndex(emitted[j].issue.v)
                   < ClaimCatalogueIndex(emitted[j + 1].issue.v)
        /\ ClaimIsSubsequence(SubSeq(all_vulns, Len(emitted) + 1, Len(all_vulns)),
                              ai_vulns)
        /\ pc = "done" => result.vulnerabilities = all_vulns

\* C4 witness: a result with two heuristic findings, reported against the
\* order of their lines, and an accepted external finding after them
C4_Witness ==
    /\ pc = "done"
    /\ Len(emitted) = 2
    /\ emitted[1].line_numbers[1] > emitted[2].line_numbers[1]
    /\ Len(result.vulnerabilities) = 3

\* C5: the seen set starts as the lowercased heuristic issue texts; each
\* merge step handles the next external finding: if its lowercased issue
\* text is in the seen set, or the filter rejects it, neither the merged
\* list nor the seen set changes; otherwise it is appended and its text is
\* added to the seen set.
C5_MergeStep ==
    [][/\ (pc # "merge" /\ pc' = "merge") =>
            /\ idx' = 1
            /\ static_issue_names' =
                   { Lower(emitted'[j].issue.v) : j \in 1..Len(emitted') }
       /\ (pc = "merge" /\ idx <= Len(ai_vulns)) =>
            LET v == ai_vulns[idx]
                name == ClaimIssueText(v)
            IN  /\ pc' = "merge" => idx' = idx + 1
                /\ IF name \notin static_issue_names /\ verify_ai_finding(v, code)
                   THEN /\ all_vulns' = Append(all_vulns, v)
                        /\ static_issue_names' = static_issue_names \cup {name}
                   ELSE /\ all_vulns' = all_vulns
                        /\ static_issue_names' = static_issue_names]_vars

\* C5 witness: the merge loop has accepted one external finding and skipped
\* a second one whose lowercased issue text is the same
C5_Witness ==
    /\ pc = "merge"
    /\ Len(ai_vulns) = 2
    /\ idx = 3
    /\ ai_vulns[1] # ai_vulns[2]
    /\ ClaimIssueText(ai_vulns[1]) = ClaimIssueText(ai_vulns[2])
    /\ all_vulns = Append(emitted, ai_vulns[1])

\* C6 as stated: the final list holds at most one finding per canonical id.
C6_OnePerCanonicalId ==
    pc = "done" =>
        \A i, j \in 1..Len(result.vulnerabilities) :
            i # j => result.vulnerabilities[i].issue # result.vulnerabilities[j].issue

\* C6 amended: the merge deduplicates by raw issue text only: the lowercased
\* issue text an external finding of the merged list came with differs from
\* that of every finding before it.
C6_DedupByRawIssueText ==
    pc \in {"merge", "score", "done"} =>
        \A j \in (Len(emitted) + 1)..Len(all_vulns) :
            \A i \in 1..(j - 1) :
                Lower(ClaimRawIssue(all_vulns[i]).v)
                    # Lower(ClaimRawIssue(all_vulns[j]).v)

\* C6 witness: a result in which an accepted external finding has the
\* canonical id of a finding before it
C6_Witness ==
    /\ pc = "done"
    /\ \E j \in (Len(emitted) + 1)..Len(result.vulnerabilities) :
           \E i \in 1..(j - 1) :
               result.vulnerabilities[i].issue = result.vulnerabilities[j].issue

\* the category keywords as the claim lists them
ClaimListedKeywords ==
    {"sql", "command", "subprocess", "os.system", "pickle", "deserial", "eval",
     "arbitrary code", "xss", "innerhtml", "ssrf", "hardcod", "secret",
     "api_key", "idor", "csrf", "path traversal"}

ClaimNamesListedCategory(issue) ==
    \E k \in ClaimListedKeywords : Contains(issue, k)

\* the same, with the path category as the filter tests it: "path" and
\* "travers" anywhere in the text
ClaimNamesKnownCategory(issue) ==
    \/ \E k \in ClaimListedKeywords \ {"path traversal"} : Contains(issue, k)
    \/ Contains(issue, "path") /\ Contains(issue, "travers")

\* the external findings of the merged list
ClaimExternalPart == SubSeq(all_vulns, Len(emitted) + 1, Len(all_vulns))

\* C7 as stated: a candidate whose lowercased issue text contains none of
\* the listed keywords is rejected by the filter and is not in the merged
\* list.
C7_ClosedWorldAsListed ==
    pc \in {"merge", "score", "done"} =>
        /\ \A k \in 1..Len(ai_vulns) :
               ~ClaimNamesListedCategory(ClaimIssueText(ai_vulns[k]))
                   => ~verify_ai_finding(ai_vulns[k], code)
        /\ \A j \in 1..Len(ClaimExternalPart) :
               ClaimNamesListedCategory(
                   Lower(ClaimRawIssue(ClaimExternalPart[j]).v))

\* C7 amended: the same, where the keyword of the path category is "path"
\* together with "travers" (so "path_traversal" names a known category).
C7_ClosedWorld ==
    pc \in {"merge", "score", "done"} =>
        /\ \A k \in 1..Len(ai_vulns) :
               ~ClaimNamesKnownCategory(ClaimIssueText(ai_vulns[k]))
                   => ~verify_ai_finding(ai_vulns[k], code)
        /\ \A j \in 1..Len(ClaimExternalPart) :
               ClaimNamesKnownCategory(
                   Lower(ClaimRawIssue(ClaimExternalPart[j]).v))

\* C7 witness: a result for a reply that listed a finding of no known
\* category, with no external finding in it
C7_Witness ==
    /\ pc = "done"
    /\ \E k \in 1..Len(ai_vulns) :
           /\ ai_vulns[k] \in ExtFindings
           /\ ClaimIssueText(ai_vulns[k]) # ""
           /\ ~ClaimNamesKnownCategory(ClaimIssueText(ai_vulns[k]))
    /\ Len(result.vulnerabilities) = Len(emitted)

\* the generic categories as the claim lists them
ClaimNoisy(issue) ==
    \E k \in {"missing input validation", "missing authentication",
              "weak password"} : Contains(issue, k)

\* C8: a candidate whose issue text names a known-noisy generic category is
\* rejected by the filter, whatever the code and whatever else its issue text
\* names, and is not in the merged list.
C8_NoisyAlwaysRejected ==
    pc \in {"merge", "score", "done"} =>
        /\ \A k \in 1..Len(ai_vulns) :
               ClaimNoisy(ClaimIssueText(ai_vulns[k]))
                   => ~verify_ai_finding(ai_vulns[k], code)
        /\ \A j \in 1..Len(ClaimExternalPart) :
               ~ClaimNoisy(Lower(ClaimRawIssue(ClaimExternalPart[j]).v))

\* C8 witness: a result for a reply that listed a noisy finding which also
\* names SQL injection, on code that corroborates SQL injection
C8_Witness ==
    /\ pc = "done"
    /\ \E k \in 1..Len(ai_vulns) :
           /\ ClaimNoisy(ClaimIssueText(ai_vulns[k]))
           /\ Contains(ClaimIssueText(ai_vulns[k]), "sql")
    /\ verify_ai_finding(Finding(Str("SQL Injection"), Absent, <<>>), code)
    /\ Len(result.vulnerabilities) = Len(emitted)

\* the code text has no SQL-like construct at all
ClaimNoSqlConstruct(c) ==
    \A k \in {"select", "insert", "update", "delete", "sql", "execute"} :
        ~Contains(Lower(c), k)

\* C9: for code with no SQL-like construct, an external finding "SQL
\* Injection" is rejected by the filter and is not in the merged list.
C9_NoSqlCodeRejectsSqlInjection ==
    (pc \in {"merge", "score", "done"} /\ ClaimNoSqlConstruct(code)) =>
        /\ \A k \in 1..Len(ai_vulns) :
               ai_vulns[k].issue = Str("SQL Injection")
                   => ~verify_ai_finding(ai_vulns[k], code)
        /\ \A j \in 1..Len(ClaimExternalPart) :
               ClaimRawIssue(ClaimExternalPart[j]) # Str("SQL Injection")

\* C10 as stated: every heuristic finding of the result has the issue,
\* severity and line_numbers it was emitted with.
C10_HeuristicsUnchanged ==
    pc = "done" =>
        \A j \in 1..Len(emitted) :
            /\ result.vulnerabilities[j].issue = emitted[j].issue
            /\ result.vulnerabilities[j].severity = emitted[j].severity
            /\ result.vulnerabilities[j].line_numbers = emitted[j].line_numbers

\* C10 amended: after canonicalization every heuristic finding has the
\* severity and line_numbers it was emitted with and its emitted issue text
\* in original_issue; so has the returned finding.
C10_HeuristicsKeepSeverityAndLines ==
    pc \in {"score", "done"} =>
        \A j \in 1..Len(emitted) :
            /\ all_vulns[j].severity = emitted[j].severity
            /\ all_vulns[j].line_numbers = emitted[j].line_numbers
            /\ all_vulns[j].original_issue = emitted[j].issue
            /\ pc = "done" => result.vulnerabilities[j] = all_vulns[j]

\* C10 witness: a result whose first finding is heuristic, with the emitted
\* issue text in original_issue and another text in issue
C10_Witness ==
    /\ pc = "done"
    /\ Len(emitted) >= 1
    /\ result.vulnerabilities[1].original_issue = emitted[1].issue
    /\ result.vulnerabilities[1].issue # emitted[1].issue

\* C11: the canonicalization step gives every finding of the merged list,
\* heuristic or external, an original_issue equal to the issue text it had
\* before the step, and an issue equal to canonicalize_issue of that text;
\* the list is returned as it then stands.
C11_OriginalKeptIssueCanonical ==
    [][/\ (pc = "merge" /\ pc' = "score") =>
            /\ Len(all_vulns') = Len(all_vulns)
            /\ \A j \in 1..Len(all_vulns) :
                   /\ all_vulns[j].issue.t = "str"
                   /\ all_vulns'[j].original_issue = all_vulns[j].issue
                   /\ all_vulns'[j].issue =
                          Str(canonicalize_issue(all_vulns[j].issue.v))
       /\ (pc = "score" /\ pc' = "done") =>
            result'.vulnerabilities = all_vulns]_vars

\* C11 witness: a result with a heuristic and an external finding, each with
\* an issue that differs from its original_issue
C11_Witness ==
    /\ pc = "done"
    /\ Len(emitted) >= 1
    /\ Len(result.vulnerabilities) > Len(emitted)
    /\ \A j \in 1..Len(result.vulnerabilities) :
           /\ result.vulnerabilities[j].original_issue.t = "str"
           /\ result.vulnerabilities[j].issue
                  # result.vulnerabilities[j].original_issue

\* C12: canonicalize_issue is idempotent: called on a value it returned, it
\* returns that value again.
C12_CanonicalizeIdempotent ==
    [][(/\ call.fn = "canonicalize_issue"
        /\ call'.fn = "canonicalize_issue"
        /\ call'.arg = call.ret) => call'.ret = call.ret]_vars

\* C13: whatever string canonicalize_issue is called on, it returns a
\* non-empty string made only of lowercase letters, digits and underscores.
C13_CanonicalIsNonEmptySlug ==
    call.fn = "canonicalize_issue" =>
        /\ call.ret # ""
        /\ \A i \in 1..Len(call.ret) :
               Ch(call.ret, i) \in CharsOf(Lowers) \cup CharsOf(Digits) \cup {"_"}

\* C14: a second run on the same code text and the same external findings
\* ends as the first did, and if it returns, it returns the same findings,
\* security_score, risk_score and risk_level, although SECURITY_LOG has
\* grown in between.
C14_SameInputsSameResult ==
    (/\ first.called
     /\ pc \in {"done", "raised"}
     /\ first.merged /\ parsed.kind = "object"
     /\ code = first.code /\ ai_vulns = first.ai_vulns) =>
        /\ pc = first.pc
        /\ result.vulnerabilities = first.result.vulnerabilities
        /\ result.security_score = first.result.security_score
        /\ result.risk_score = first.result.risk_score
        /\ result.risk_level = first.result.risk_level

\* C14 witness: the second run has returned heuristic and external findings,
\* with two records in SECURITY_LOG
C14_Witness ==
    /\ first.called
    /\ pc = "done"
    /\ Len(SECURITY_LOG) = 2
    /\ Len(emitted) >= 1
    /\ Len(result.vulnerabilities) > Len(emitted)

\* one more critical finding, as it would be merged in
ClaimCritical == Finding(Str("One More Finding"), Str("Critical"), <<>>)

\* C15: with one more critical finding in the returned list the
\* security_score would be strictly lower than the one returned, or both are
\* at the floor 0.
C15_CriticalLowersScore ==
    pc = "done" =>
        LET after == SecurityScore(SumPenalty(
                         Append(result.vulnerabilities, ClaimCritical)))
        IN  \/ after < result.security_score
            \/ (after = 0 /\ result.security_score = 0)

\* C15 witness: a result with findings whose score is above the floor by
\* less than the penalty of a critical finding
C15_Witness ==
    /\ pc = "done"
    /\ Len(result.vulnerabilities) >= 1
    /\ result.security_score > 0
    /\ result.security_score < 80

\* the code text is made of one or more lines, each of them the line l
ClaimOnlyLines(c, l) ==
    /\ c # ""
    /\ \A i \in 1..Len(Split(c)) : Split(c)[i] = l

\* C16: with no external findings, code in which no rule matches gives no
\* findings, security_score 100 and risk_level low; code in which only the
\* eval rule matches gives one critical finding, risk_score 80,
\* security_score 20 and risk_level critical; code in which only the
\* os.system rule matches gives one high finding, risk_score 55,
\* security_score 45 and risk_level high.
C16_HeuristicOnlyResults ==
    (pc = "done" /\ ai_vulns = <<>>) =>
        /\ (code = "" \/ ClaimOnlyLines(code, "m = \"a\" + \"b\"")) =>
               /\ result.vulnerabilities = <<>>
               /\ result.risk_score = 0
               /\ result.security_score = 100
               /\ result.risk_level = "low"
        /\ ClaimOnlyLines(code, "eval(x)") =>
               /\ Len(result.vulnerabilities) = 1
               /\ result.vulnerabilities[1].severity = Str("critical")
               /\ result.risk_score = 80
               /\ result.security_score = 20
               /\ result.risk_level = "critical"
        /\ ClaimOnlyLines(code, "os.system(c)") =>
               /\ Len(result.vulnerabilities) = 1
               /\ result.vulnerabilities[1].severity = Str("high")
               /\ result.risk_score = 55
               /\ result.security_score = 45
               /\ result.risk_level = "high"

\* C16 witness: a result for two os.system lines and no external findings
C16_Witness ==
    /\ pc = "done"
    /\ ai_vulns = <<>>
    /\ code = "os.system(c)\nos.system(c)"
    /\ result.security_score = 45

\* C17: the merge step for an external finding whose issue is absent or
\* null does not raise: it goes on to the next finding and leaves the
\* merged list as it is (the finding is rejected).
C17_MissingIssueRejectedWithoutRaise ==
    [][(/\ pc = "merge" /\ idx <= Len(ai_vulns)
        /\ ai_vulns[idx].issue.t \in {"absent", "null"}) =>
           /\ pc' = "merge"
           /\ idx' = idx + 1
           /\ all_vulns' = all_vulns]_vars

\* C18: when the reply is a JSON object whose list of findings is empty or
\* missing (as in the mock response of call_chat), the call does not raise,
\* and the result it returns holds exactly the heuristic findings,
\* canonicalized, with risk_score and security_score computed from them.
C18_NoExternalFindingsHeuristicResult ==
    (parsed.kind = "object" /\ ai_vulns = <<>>) =>
        /\ pc # "raised"
        /\ pc = "done" =>
             /\ Len(result.vulnerabilities) = Len(emitted)
             /\ \A j \in 1..Len(emitted) :
                    /\ result.vulnerabilities[j].original_issue = emitted[j].issue
                    /\ result.vulnerabilities[j].issue =
                           Str(canonicalize_issue(emitted[j].issue.v))
                    /\ result.vulnerabilities[j].severity = emitted[j].severity
                    /\ result.vulnerabilities[j].line_numbers
                           = emitted[j].line_numbers
             /\ result.risk_score = ClaimTotal(emitted)
             /\ result.security_score =
                    (IF ClaimTotal(emitted) >= 100 THEN 0
                     ELSE 100 - ClaimTotal(emitted))

\* C18 witness: a result for a reply without the vulnerabilities key, on
\* code with heuristic findings
C18_Witness ==
    /\ pc = "done"
    /\ parsed = ParsedObject(FALSE, <<>>)
    /\ Len(emitted) >= 1
    /\ Len(result.vulnerabilities) = Len(emitted)

\* the severity the rule catalogue gives to the rule with this issue name
ClaimRuleSeverity(issue) ==
    IF issue \in {"SQL Injection", "Hardcoded Secret",
                  "Arbitrary Code Execution (eval)", "Command Injection (exec)",
                  "Command Injection (subprocess)",
                  "Insecure Deserialization (pickle)"}
    THEN "critical"
    ELSE IF issue \in {"Command Injection (os.system)", "SSRF",
                       "Cross-Site Scripting (XSS)", "Debug mode enabled",
                       "Path Traversal", "IDOR (missing authorization)"}
    THEN "high"
    ELSE IF issue \in {"Weak Cryptography (MD5)", "Missing CSRF Protection",
                       "Sensitive Data Logging"}
    THEN "medium"
    ELSE "no such rule"

\* C19: every finding run_static_analysis returns has the severity the
\* catalogue fixes for its rule, which is never low.
C19_RuleSeverityFixed ==
    call.fn = "run_static_analysis" =>
        \A j \in 1..Len(call.ret) :
            /\ call.ret[j].severity = Str(ClaimRuleSeverity(call.ret[j].issue.v))
            /\ call.ret[j].severity # Str("low")

\* C19 witness: run_static_analysis has returned a medium and a high finding
C19_Witness ==
    /\ call.fn = "run_static_analysis"
    /\ Len(call.ret) = 2
    /\ \E j \in 1..2 : call.ret[j].severity = Str("medium")
    /\ \E j \in 1..2 : call.ret[j].severity = Str("high")

\* C20: run_static_analysis returns at most one finding for each rule, and
\* the findings are in the order of the catalogue.
C20_OnePerRuleInCatalogueOrder ==
    call.fn = "run_static_analysis" =>
        /\ \A j \in 1..Len(call.ret) :
               ClaimCatalogueIndex(call.ret[j].issue.v) > 0
        /\ \A j \in 1..(Len(call.ret) - 1) :
               ClaimCatalogueIndex(call.ret[j].issue.v)
                   < ClaimCatalogueIndex(call.ret[j + 1].issue.v)

\* C20 witness: code whose first line matches the third pattern of the SQL
\* Injection rule and whose second line matches the first: one finding,
\* with the line of the first pattern only
C20_Witness ==
    /\ call.fn = "run_static_analysis"
    /\ call.arg = "q = \"SELECT \" + x\ndb.execute(f\"SELECT {x}\")"
    /\ Len(call.ret) = 1
    /\ call.ret[1].line_numbers = <<2>>

\* the keyword rules of the canonicalizer, numbered as the ids are listed;
\* rule 13 is the eval / arbitrary code execution rule of command_injection
ClaimKeywordRule(k, s) ==
    CASE k = 1  -> Contains(s, "sql") /\ Contains(s, "inject")
      [] k = 2  -> \/ Contains(s, "command") /\ Contains(s, "inject")
                   \/ Contains(s, "subprocess")
                   \/ Contains(s, "os.system")
                   \/ Contains(s, "child_process.exec")
      [] k = 3  -> \/ Contains(s, "hardcod") \/ Contains(s, "api key")
                   \/ Contains(s, "api_token") \/ Contains(s, "api token")
                   \/ Contains(s, "secret")
      [] k = 4  -> Contains(s, "path traversal") \/ Contains(s, "path_traversal")
      [] k = 5  -> Contains(s, "deserial") \/ Contains(s, "pickle")
      [] k = 6  -> Contains(s, "md5") \/ Contains(s, "weak crypt")
      [] k = 7  -> Contains(s, "debug")
      [] k = 8  -> \/ Contains(s, "xss") \/ Contains(s, "innerhtml")
                   \/ Contains(s, "inner html")
      [] k = 9  -> \/ Contains(s, "ssrf") \/ Contains(s, "requests.get")
                   \/ Contains(s, "user_url")
      [] k = 10 -> Contains(s, "idor") \/ Contains(s, "insecure direct object")
      [] k = 11 -> /\ Contains(s, "sensitive")
                   /\ (Contains(s, "log") \/ Contains(s, "password"))
      [] k = 12 -> Contains(s, "csrf")
      [] k = 13 -> \/ Contains(s, "eval") \/ Contains(s, "arbitrary code")
                   \/ Contains(s, "code execution")

ClaimCanonicalIds ==
    << "sql_injection", "command_injection", "hardcoded_secrets",
       "path_traversal", "insecure_deserialization", "weak_crypto",
       "debug_enabled", "xss_vulnerability", "ssrf_vulnerability",
       "idor_vulnerability", "sensitive_data_exposure", "csrf_vulnerability",
       "command_injection" >>

\* the order as listed: the eval rule belongs to command_injection, second
ClaimListedOrder == <<1, 2, 13, 3, 4, 5, 6, 7, 8, 9, 10, 11, 12>>

\* the order with the eval rule last, after csrf_vulnerability
ClaimEvalLastOrder == <<1, 2, 3, 4, 5, 6, 7, 8, 9, 10, 11, 12, 13>>

\* first match wins: for a text some rule matches, the result is the id of
\* the first rule of the order that matches
ClaimFirstMatchWins(order, s, ret) ==
    \A i \in 1..Len(order) :
        (/\ ClaimKeywordRule(order[i], s)
         /\ \A j \in 1..(i - 1) : ~ClaimKeywordRule(order[j], s))
            => ret = ClaimCanonicalIds[order[i]]

\* C21 as stated: the rules are applied in the listed order, the eval /
\* arbitrary code execution keywords with command_injection, and the first
\* rule that matches the lowercased text decides.
C21_FirstMatchInListedOrder ==
    call.fn = "canonicalize_issue" =>
        ClaimFirstMatchWins(ClaimListedOrder, Lower(call.arg), call.ret)

\* C21 amended: the rules are applied in the listed order, except that the
\* eval / arbitrary code execution keywords are tested last, after csrf;
\* the first rule that matches the lowercased text decides.
C21_FirstMatchEvalLast ==
    call.fn = "canonicalize_issue" =>
        ClaimFirstMatchWins(ClaimEvalLastOrder, Lower(call.arg), call.ret)

\* C21 witness: a text with keywords of the eval rule and of a rule listed
\* after command_injection has been canonicalized
C21_Witness ==
    /\ call.fn = "canonicalize_issue"
    /\ ClaimKeywordRule(13, Lower(call.arg))
    /\ ClaimKeywordRule(5, Lower(call.arg))
    /\ call.ret = "insecure_deserialization"

\* C22: no finding of run_static_analysis reports more than 5 line numbers,
\* and every finding other than SQL Injection reports at most 3, however
\* many lines of the code match
C22_LineNumberCaps ==
    call.fn = "run_static_analysis" =>
        \A i \in 1..Len(call.ret) :
            /\ Len(call.ret[i].line_numbers) <= 5
            /\ call.ret[i].issue # Str("SQL Injection")
                   => Len(call.ret[i].line_numbers) <= 3

\* C22 witness: more than five lines of the code match the SQL Injection
\* rule, and the finding reports the first five
C22_Witness ==
    /\ call.fn = "run_static_analysis"
    /\ Len(LinesMatching(sql_injection_patterns[1], Split(call.arg),
                         IgnoreCase)) > 5
    /\ Len(call.ret) = 1
    /\ call.ret[1].issue = Str("SQL Injection")
    /\ call.ret[1].line_numbers = <<1, 2, 3, 4, 5>>

\* a pattern matches the full text and no single line
ClaimSpansLines(re, c, fcode, fline) ==
    /\ re_search(re, c, fcode)
    /\ LinesMatching(re, Split(c), fline) = <<>>

\* the finding of a rule is in ret, with an empty list of line numbers
ClaimEmptyLineFinding(ret, issue) ==
    \E i \in 1..Len(ret) :
        ret[i].issue = Str(issue) /\ ret[i].line_numbers = <<>>

\* C23 (as stated): when the pattern of a rule matches the full text and no
\* single line, run_static_analysis returns the finding of that rule with an
\* empty list of line numbers
C23_SpanningMatchGivesEmptyLineList ==
    call.fn = "run_static_analysis" =>
        /\ ClaimSpansLines(eval_re, call.arg, NoFlags, NoFlags)
               => ClaimEmptyLineFinding(call.ret,
                                        "Arbitrary Code Execution (eval)")
        /\ ClaimSpansLines(os_system_re, call.arg, NoFlags, NoFlags)
               => ClaimEmptyLineFinding(call.ret,
                                        "Command Injection (os.system)")
        /\ (/\ \E k \in 1..Len(sql_injection_patterns) :
                   re_search(sql_injection_patterns[k], call.arg,
                             Flags(TRUE, TRUE))
            /\ \A k \in 1..Len(sql_injection_patterns) :
                   LinesMatching(sql_injection_patterns[k], Split(call.arg),
                                 IgnoreCase) = <<>>)
               => ClaimEmptyLineFinding(call.ret, "SQL Injection")
        /\ (/\ \E k \in 1..Len(path_traversal_patterns) :
                   re_search(path_traversal_patterns[k], call.arg, IgnoreCase)
            /\ \A k \in 1..Len(path_traversal_patterns) :
                   LinesMatching(path_traversal_patterns[k], Split(call.arg),
                                 IgnoreCase) = <<>>)
               => ClaimEmptyLineFinding(call.ret, "Path Traversal")

\* C30 (as stated): the line numbers of every finding of run_static_analysis
\* are strictly increasing, and each is the 1-based index of a line of the code
C30_LineNumbersStrictlyIncreasing ==
    call.fn = "run_static_analysis" =>
        \A i \in 1..Len(call.ret) :
            LET line_numbers == call.ret[i].line_numbers
            IN  /\ \A j \in 1..Len(line_numbers) :
                       line_numbers[j] \in 1..Len(Split(call.arg))
                /\ \A j \in 1..(Len(line_numbers) - 1) :
                       line_numbers[j] < line_numbers[j + 1]

\* the place of a step in the order of the call
ClaimStepRank(p) ==
    CASE p = "idle"       -> 0
      [] p = "await_chat" -> 1
      [] p = "await_fix"  -> 2
      [] p = "merge"      -> 3
      [] p = "score"      -> 4
      [] OTHER            -> 5

\* C25: the steps of one analyze_code_security call run in the order static
\* analysis, RAG retrieval, LLM audit call, optional repair call, merge,
\* canonicalize, score; call_chat is called at most twice, the second time
\* (the repair) only after a first reply that is no JSON; and when the
\* repaired reply is no JSON either, the returned list is exactly the
\* heuristic findings.
C25_StepOrderAndFallback ==
    /\ [](/\ Len(chat_calls) <= 2
          /\ pc = "idle" <=> chat_calls = <<>>
          /\ Len(chat_calls) >= 1 => chat_calls[1].prompt.kind = "audit"
          /\ Len(chat_calls) = 2 =>
                 /\ chat_calls[1].reply = "not_json"
                 /\ chat_calls[2].prompt.kind = "fix"
          /\ (/\ pc = "done"
              /\ Len(chat_calls) = 2
              /\ chat_calls[2].reply = "not_json") =>
                 result.vulnerabilities =
                     [j \in 1..Len(emitted) |-> CanonicalizeFinding(emitted[j])])
    /\ [][/\ ClaimStepRank(pc') >= ClaimStepRank(pc)
          /\ pc = "idle" =>
                 /\ pc' = "await_chat"
                 /\ emitted' = run_static_analysis(code')
                 /\ Len(SECURITY_LOG') = Len(SECURITY_LOG) + 1
                 /\ rag_docs' = SECURITY_LOG'[Len(SECURITY_LOG')].results
                 /\ chat_calls' = <<ChatCall(ai_prompt(code'))>>
          /\ pc = "await_chat" => pc' \in {"await_fix", "merge", "raised"}
          /\ pc' = "await_fix" => pc = "await_chat"
          /\ pc' = "merge" => pc \in {"await_chat", "await_fix", "merge"}
          /\ pc' = "score" =>
                 /\ pc = "merge"
                 /\ all_vulns' = [j \in 1..Len(all_vulns) |->
                                      CanonicalizeFinding(all_vulns[j])]
          /\ pc' = "done" =>
                 /\ pc = "score"
                 /\ result'.vulnerabilities = all_vulns
          /\ Len(chat_calls') > Len(chat_calls) =>
                 \/ pc = "idle"
                 \/ pc = "await_chat" /\ pc' = "await_fix"]_vars

\* C25 witness: a call has returned after two replies that were no JSON, with
\* the heuristic findings
C25_Witness ==
    /\ pc = "done"
    /\ Len(chat_calls) = 2
    /\ chat_calls[2].reply = "not_json"
    /\ Len(emitted) >= 1
    /\ Len(result.vulnerabilities) = Len(emitted)

\* C28: a result whose list holds a finding of critical severity (compared
\* case-insensitively), heuristic or external, has security_score at most 20
\* and risk_level critical
C28_CriticalFindingCriticalRisk ==
    pc = "done" =>
        ((\E j \in 1..Len(result.vulnerabilities) :
              /\ result.vulnerabilities[j].severity.t = "str"
              /\ Lower(result.vulnerabilities[j].severity.v) = "critical")
            => /\ result.security_score <= 20
               /\ result.risk_level = "critical")

\* C28 witness: a result whose only critical finding is an accepted external
\* finding, its severity written "Critical"
C28_Witness ==
    /\ pc = "done"
    /\ \E j \in (Len(emitted) + 1)..Len(result.vulnerabilities) :
           result.vulnerabilities[j].severity = Str("Critical")
    /\ \A j \in 1..Len(emitted) : emitted[j].severity # Str("critical")

\* C29: no two findings of a result have the same original_issue, compared
\* case-insensitively
C29_OriginalIssuesDistinct ==
    pc = "done" =>
        \A i, j \in 1..Len(result.vulnerabilities) :
            i # j => Lower(result.vulnerabilities[i].original_issue.v)
                         # Lower(result.vulnerabilities[j].original_issue.v)

\* C29 witness: two external findings whose issue texts differ in case only
\* were supplied and corroborated; the result holds the heuristic findings
\* and the first of the two
C29_Witness ==
    /\ pc = "done"
    /\ Len(ai_vulns) = 2
    /\ ai_vulns[1].issue # ai_vulns[2].issue
    /\ ClaimIssueText(ai_vulns[1]) = ClaimIssueText(ai_vulns[2])
    /\ verify_ai_finding(ai_vulns[2], code)
    /\ Len(emitted) >= 1
    /\ Len(result.vulnerabilities) = Len(emitted) + 1
    /\ result.vulnerabilities[Len(emitted) + 1].original_issue
           = ai_vulns[1].issue

\* the code text holds a match of the pattern, its first 5000 characters
\* hold none
ClaimOnlyAfterPrompt(re, f) ==
    /\ re_search(re, code, f)
    /\ ~re_search(re, Prefix(code, 5000), f)

\* the returned list holds an external finding named issue, in whatever case
ClaimAcceptedExternal(issue) ==
    \E j \in (Len(emitted) + 1)..Len(result.vulnerabilities) :
        Lower(result.vulnerabilities[j].original_issue.v) = Lower(issue)

\* C24: the prompt holds the first 5000 characters of the code text, and the
\* pattern matcher and the corroboration filter are given the full text: an
\* os.system call that occurs only after character 5000 is reported by its
\* rule and corroborates an external Command Injection finding, and a string
\* concatenation that occurs only after character 5000 corroborates an
\* external SQL Injection finding
C24_FullTextAnalysedPromptCut ==
    pc # "idle" =>
        /\ chat_calls[1].prompt.code_content = Prefix(code, 5000)
        /\ chat_calls[1].prompt.more_characters
               = (IF Len(code) > 5000 THEN Len(code) - 5000 ELSE 0)
        /\ ClaimOnlyAfterPrompt(os_system_re, NoFlags) =>
               /\ \E j \in 1..Len(emitted) :
                      /\ emitted[j].issue = Str("Command Injection (os.system)")
                      /\ emitted[j].line_numbers = <<2>>
               /\ (/\ pc = "done"
                   /\ \E j \in 1..Len(ai_vulns) :
                          ai_vulns[j].issue = Str("Command Injection"))
                      => ClaimAcceptedExternal("Command Injection")
        /\ (/\ ClaimOnlyAfterPrompt(plus_quote_re, NoFlags)
            /\ pc = "done"
            /\ \E j \in 1..Len(ai_vulns) :
                   ai_vulns[j].issue = Str("SQL Injection"))
               => ClaimAcceptedExternal("SQL Injection")

\* C24 witness: the os.system call is not in the prompt; the result holds
\* the finding of the os.system rule and the external Command Injection
\* finding
C24_Witness ==
    /\ pc = "done"
    /\ Len(code) > 5000
    /\ ~Contains(chat_calls[1].prompt.code_content, "os.system")
    /\ Len(result.vulnerabilities) = 2
    /\ result.vulnerabilities[1].original_issue
           = Str("Command Injection (os.system)")
    /\ result.vulnerabilities[2].original_issue = Str("Command Injection")

RECURSIVE ClaimMergeAlone(_, _, _, _)
\* the merge loop on the external findings ai: the merged list, or a raise
ClaimMergeAlone(all, seen, ai, c) ==
    IF ai = <<>> THEN [raised |-> FALSE, all_vulns |-> all]
    ELSE LET v == Head(ai)
         IN  IF IssueNameRaises(v) THEN [raised |-> TRUE, all_vulns |-> <<>>]
             ELSE IF issue_name(v) \notin seen /\ verify_ai_finding(v, c)
             THEN ClaimMergeAlone(Append(all, v), seen \cup {issue_name(v)},
                                  Tail(ai), c)
             ELSE ClaimMergeAlone(all, seen, Tail(ai), c)

\* what a call on the code text c returns when no other call runs: static is
\* the list run_static_analysis(c) returns, p the reply that parsed, and
\* fallback tells that neither reply parsed
ClaimAlone(c, static, p, fallback) ==
    LET ai == IF fallback THEN static
              ELSE IF p.has_vulnerabilities THEN p.vulnerabilities ELSE <<>>
        merged == ClaimMergeAlone(static,
                      { IssueText(static[j]) : j \in 1..Len(static) }, ai, c)
        all == [j \in 1..Len(merged.all_vulns) |->
                    CanonicalizeFinding(merged.all_vulns[j])]
        score == SecurityScore(SumPenalty(all))
    IN  IF \/ (~fallback /\ p.kind # "object")
           \/ merged.raised
           \/ \E j \in 1..Len(all) : SeverityRaises(all[j])
        THEN [pc |-> "raised", vulnerabilities |-> <<>>, security_score |-> 0,
              risk_level |-> ""]
        ELSE [pc |-> "done", vulnerabilities |-> all,
              security_score |-> score, risk_level |-> RiskLevel(score)]

\* a call that is over has ended as it would have when run alone
ClaimAsAlone(f) ==
    f.pc \in {"done", "raised"} =>
        LET last == f.chat_calls[Len(f.chat_calls)]
            alone == ClaimAlone(f.code, f.emitted, f.parsed,
                                Len(f.chat_calls) = 2 /\ last.reply = "not_json")
        IN  [pc |-> f.pc,
             vulnerabilities |-> f.result.vulnerabilities,
             security_score |-> f.result.security_score,
             risk_level |-> f.result.risk_level] = alone

\* C26: two analyze_code_security calls interleaved at their awaits are
\* independent: each returns the findings, security_score and risk_level it
\* returns when run alone on its code text and replies (or raises as it does
\* alone), and the steps of one call leave the frame of the other as it is
C26_ConcurrentCallsIndependent ==
    /\ [](ClaimAsAlone(Frame) /\ ClaimAsAlone(suspended))
    /\ [][/\ pc = "idle" => emitted' = run_static_analysis(code')
          /\ \/ suspended' = suspended
             \/ suspended' = Frame /\ Frame' = suspended]_vars

\* C26 witness: both calls are over and have returned, on different code
\* texts and with accepted external findings, and the call that made its
\* LLM call first returned last
C26_Witness ==
    /\ pc = "done"
    /\ suspended.pc = "done"
    /\ code # suspended.code
    /\ Len(result.vulnerabilities) > Len(emitted)
    /\ Len(suspended.result.vulnerabilities) > Len(suspended.emitted)
    /\ SECURITY_LOG[1].input = Prefix(code, 200)
    /\ SECURITY_LOG[2].input = Prefix(suspended.code, 200)

\* a call that has run retrieve_security_docs
ClaimRetrieved(f) == IF f.pc = "idle" THEN 0 ELSE 1

\* C27: SECURITY_LOG is append-only: a step either leaves it as it is or is
\* the retrieve_security_docs of the running call and appends one record of
\* the first 200 characters of its code text, the retrieved snippets and a
\* timestamp; the log holds one record for each call that has run its
\* retrieval
C27_LogAppendOnly ==
    /\ [](Len(SECURITY_LOG) = ClaimRetrieved(Frame) + ClaimRetrieved(suspended))
    /\ [][\/ SECURITY_LOG' = SECURITY_LOG
          \/ /\ pc = "idle"
             /\ pc' = "await_chat"
             /\ \E t \in Times :
                    SECURITY_LOG' =
                        Append(SECURITY_LOG,
                               [input |-> Prefix(code', 200),
                                results |-> rag_docs',
                                time |-> t])
             /\ Len(SECURITY_LOG'[Len(SECURITY_LOG')].input) <= 200]_vars

\* C27 witness: a call on a code text of more than 200 characters is over
\* while the other call awaits its reply; the log holds two records, one
\* of them with the first 200 characters of the long text
C27_Witness ==
    /\ pc = "done"
    /\ suspended.pc = "await_chat"
    /\ Len(code) > 200
    /\ Len(SECURITY_LOG) = 2
    /\ \E k \in 1..2 :
           /\ SECURITY_LOG[k].input = Prefix(code, 200)
           /\ Len(SECURITY_LOG[k].input) = 200
    /\ SECURITY_LOG[1].time # SECURITY_LOG[2].time

====
